---- MODULE Spec2Model ----
(***************************************************************************)
(* Iterable MCP server: the key manager (key-manager.ts), its store-file   *)
(* lock protocol, and the tool filter (tool-filter.ts).                    *)
(*                                                                         *)
(* The specifications of the module share its variables:                   *)
(*   Spec        one Key Manager; every public operation is one step       *)
(*   SpecLock    several processes, each with its own Key Manager, running *)
(*               addKey/saveMetadata one file-system call at a time        *)
(*   SpecFilter  filterTools applied to bounded tool lists and every       *)
(*               combination of the three allow-flags                      *)
(*   SpecShared, SpecRecover  processes taking turns on one store file,    *)
(*               with crashes                                              *)
(*   SpecOverlap overlapping addKey calls on one Key Manager, one await    *)
(*               at a time                                                 *)
(* and further ones, each introduced where it is defined.                  *)
(***************************************************************************)
EXTENDS Integers, Sequences, FiniteSets, TLC

VARIABLES
  \* ---- tool filter (tool-filter.ts)
  config,     \* McpServerConfig: the three allow-flags
  tools,      \* the tool list handed to filterTools (names only)
  listed,     \* [ran, tools]: what filterTools returned, once it ran
  \* ---- permission flags (config.ts, install.ts)
  penv,       \* process.env: the three permission variables
  kenv,       \* the active key's env overrides, or undefined
  menv0,      \* the env object first handed to enforceSendsRequiresWrites
  menv,       \* that env object now
  enforced,   \* number of enforceSendsRequiresWrites calls on it so far
  \* ---- the disk and the OS, shared by every process
  lock,       \* keys.lock: NoLock, EmptyLock(p) or LockOf(p, age)
  file,       \* keys.json: NoStoreFile, Truncated or StoreFile(keys)
  backup,     \* keys.json.backup: NoStoreFile, Truncated or StoreFile(keys)
  vault,      \* macOS Keychain: function from key id to secret
  alive,      \* process ids for which process.kill(pid, 0) succeeds
  \* ---- one Key Manager, operation granularity (Spec)
  store,      \* this.store: Null or [keys, version]
  saveLock,   \* this.saveLock: Null or "rejected" (a settled, failed save)
  backend,    \* "keychain" | "dpapi" | "file" (useKeychain / useDpapi)
  nextId,     \* number of ids randomUUID has handed out so far
  lastOp,     \* the last call, its arguments and how it ended
  got,        \* the last call's argument and the value it returned
  \* ---- addKey calls in flight on the one Key Manager (SpecOverlap)
  call,       \* call[c]: where call c is suspended, and its locals
  waiting,    \* the calls suspended at `await this.saveLock`, oldest first
  \* ---- per-process Key Managers, file-step granularity (SpecLock)
  pc,         \* pc[p]: where process p stands in addKey/saveMetadata
  attempt,    \* attempt[p]: acquireLock's loop counter
  seen,       \* seen[p]: the lock content p read last
  buf,        \* buf[p]: the store file content backupMetadata read
  pstore,     \* pstore[p]: p's in-memory this.store.keys
  initFile,   \* the store file's keys all processes loaded at start
  initLock    \* the lock file found at start

envVars    == <<penv, kenv, menv0, menv, enforced>>
filterVars == <<config, tools, listed, envVars>>
diskVars   == <<lock, file, backup, vault, alive>>
callVars   == <<call, waiting>>
kmVars     == <<store, saveLock, backend, nextId, lastOp, got, callVars>>
procVars   == <<pc, attempt, seen, buf, pstore, initFile, initLock>>
vars       == <<filterVars, diskVars, kmVars, procVars>>

(***************************************************************************)
(* Bounds of the model                                                     *)
(***************************************************************************)
MaxTools == 2      \* longest tool list handed to filterTools
NumProcs == 2      \* processes sharing the store directory
MaxEnforce == 2    \* calls of enforceSendsRequiresWrites on one env object
MaxKeys  == 2      \* ids one Key Manager may generate

Null      == "null"
NotRun    == [ran |-> FALSE, tools |-> << >>]

\* Sequences over S of length at most n
BoundedSeq(S, n) == UNION { [1..k -> S] : k \in 0..n }

(***************************************************************************)
(* Tool filter                                                             *)
(***************************************************************************)
NON_PII_TOOLS ==
  { "abort_campaign", "activate_triggered_campaign", "archive_campaigns",
    "bulk_delete_catalog_items", "cancel_campaign", "create_campaign",
    "create_catalog", "create_list", "create_snippet",
    "deactivate_triggered_campaign", "delete_catalog", "delete_catalog_item",
    "delete_list", "delete_snippet", "delete_templates", "get_campaign",
    "get_campaign_metrics", "get_campaigns", "get_catalog_field_mappings",
    "get_catalog_item", "get_catalog_items", "get_catalogs", "get_channels",
    "get_child_campaigns", "get_email_template", "get_experiment_metrics",
    "get_inapp_template", "get_journeys", "get_list_size", "get_lists",
    "get_message_types", "get_push_template", "get_sms_template",
    "get_snippet", "get_snippets", "get_template_by_client_id",
    "get_templates", "get_user_fields", "get_webhooks",
    "partial_update_catalog_item", "replace_catalog_item",
    "schedule_campaign", "send_campaign", "trigger_campaign",
    "update_catalog_field_mappings", "update_catalog_items",
    "update_email_template", "update_inapp_template", "update_push_template",
    "update_sms_template", "update_snippet", "update_webhook",
    "upsert_email_template", "upsert_inapp_template", "upsert_push_template",
    "upsert_sms_template" }

READ_ONLY_TOOLS ==
  { "get_campaign", "get_campaign_metrics", "get_campaigns",
    "get_catalog_field_mappings", "get_catalog_item", "get_catalog_items",
    "get_catalogs", "get_channels", "get_child_campaigns",
    "get_email_template", "get_embedded_messages", "get_experiment_metrics",
    "get_export_files", "get_export_jobs", "get_in_app_messages",
    "get_inapp_template", "get_journeys", "get_list_preview_users",
    "get_list_size", "get_list_users", "get_lists", "get_message_types",
    "get_push_template", "get_sent_messages", "get_sms_template",
    "get_snippet", "get_snippets", "get_template_by_client_id",
    "get_templates", "get_user_by_email", "get_user_by_user_id",
    "get_user_events_by_email", "get_user_events_by_user_id",
    "get_user_fields", "get_webhooks", "preview_email_template",
    "preview_inapp_template" }

SEND_TOOLS ==
  { "send_campaign", "trigger_campaign", "schedule_campaign",
    "create_campaign", "activate_triggered_campaign", "trigger_journey",
    "track_event", "track_bulk_events", "send_email", "send_sms",
    "send_whatsapp", "send_web_push", "send_push", "send_in_app",
    "send_email_template_proof", "send_sms_template_proof",
    "send_push_template_proof", "send_inapp_template_proof" }

\* Names in none of the three sets: a registered tool the sets do not
\* classify, and the tests' synthetic name
UnknownTools == { "update_user", "definitely_not_a_real_tool" }

\* Tool names the bounded inputs are drawn from: every send tool, the
\* unknown names, and one tool of each remaining class
ToolNames ==
  SEND_TOOLS \cup UnknownTools \cup
  { "get_campaign", "get_user_by_email", "create_list" }

Configs ==
  [allowUserPii : BOOLEAN, allowWrites : BOOLEAN, allowSends : BOOLEAN]

toolAllowed_noWrites(name, cfg) ==
  /\ (cfg.allowUserPii \/ name \in NON_PII_TOOLS)
  /\ (cfg.allowSends \/ name \notin SEND_TOOLS)

toolAllowed_noPii(name, cfg) ==
  /\ (cfg.allowWrites \/ name \in READ_ONLY_TOOLS)
  /\ (cfg.allowSends \/ name \notin SEND_TOOLS)

\* The predicate of tools.filter(...) in filterTools
toolAllowed(name, cfg) ==
  /\ (cfg.allowUserPii \/ name \in NON_PII_TOOLS)
  /\ (cfg.allowWrites \/ name \in READ_ONLY_TOOLS)
  /\ (cfg.allowSends \/ name \notin SEND_TOOLS)

filterTools_newestFirst(ts, cfg) ==
  LET kept == SelectSeq(ts, LAMBDA name : toolAllowed(name, cfg))
  IN  [i \in 1..Len(kept) |-> kept[Len(kept) + 1 - i]]

filterTools(ts, cfg) ==
  LET keep(name) == toolAllowed(name, cfg)
  IN  SelectSeq(ts, keep)

\* An environment variable that is not set (undefined)
Absent == "<undefined>"

\* Values of a permission variable: unset, the two canonical strings, and
\* other strings (wrong case, empty)
EnvValues == { Absent, "true", "false", "TRUE", "" }

PermissionEnvs ==
  [ITERABLE_USER_PII : EnvValues, ITERABLE_ENABLE_WRITES : EnvValues,
   ITERABLE_ENABLE_SENDS : EnvValues]

NoPermissionEnv ==
  [ITERABLE_USER_PII |-> Absent, ITERABLE_ENABLE_WRITES |-> Absent,
   ITERABLE_ENABLE_SENDS |-> Absent]

\* keyEnv: Record<string, string> | undefined
UndefinedKeyEnv == [defined |-> FALSE, vars |-> NoPermissionEnv]
KeyEnvs ==
  { UndefinedKeyEnv } \cup [defined : { TRUE }, vars : PermissionEnvs]

\* The env objects of the install flow: the permission variables and the
\* debug entries beside them
NoInstallEnv ==
  [ITERABLE_USER_PII |-> Absent, ITERABLE_ENABLE_WRITES |-> Absent,
   ITERABLE_ENABLE_SENDS |-> Absent, LOG_LEVEL |-> Absent]

InstallEnvs ==
  [ITERABLE_USER_PII : { "true", "false" }, ITERABLE_ENABLE_WRITES : EnvValues,
   ITERABLE_ENABLE_SENDS : EnvValues, LOG_LEVEL : { Absent, "debug" }]

IdleEnv ==
  /\ penv = NoPermissionEnv
  /\ kenv = UndefinedKeyEnv
  /\ menv0 = NoInstallEnv
  /\ menv = NoInstallEnv
  /\ enforced = 0

Nullish_orEmpty(a, b) == IF a \in { Absent, "" } THEN b ELSE a

\* a ?? b
Nullish(a, b) == IF a = Absent THEN b ELSE a

\* keyEnv?.NAME
KeyEnvGet(ke, name) == IF ke.defined THEN ke.vars[name] ELSE Absent

resolveAllowFlags(keyEnv, env) ==
  [allowUserPii |->
     Nullish(KeyEnvGet(keyEnv, "ITERABLE_USER_PII"), env.ITERABLE_USER_PII) = "true",
   allowWrites |->
     Nullish(KeyEnvGet(keyEnv, "ITERABLE_ENABLE_WRITES"),
             env.ITERABLE_ENABLE_WRITES) = "true",
   allowSends |->
     Nullish(KeyEnvGet(keyEnv, "ITERABLE_ENABLE_SENDS"),
             env.ITERABLE_ENABLE_SENDS) = "true"]

\* loadMcpServerConfig once an API key was found: the flags it returns
loadMcpServerConfig(keyEnv, env) == resolveAllowFlags(keyEnv, env)

enforceSendsRequiresWrites_onFalse(env) ==
  IF env.ITERABLE_ENABLE_SENDS = "true" /\ env.ITERABLE_ENABLE_WRITES = "false"
  THEN [env EXCEPT !.ITERABLE_ENABLE_SENDS = "false"]
  ELSE env

enforceSendsRequiresWrites(env) ==
  IF env.ITERABLE_ENABLE_SENDS = "true" /\ env.ITERABLE_ENABLE_WRITES # "true"
  THEN [env EXCEPT !.ITERABLE_ENABLE_SENDS = "false"]
  ELSE env

InitFilterVars ==
  /\ config \in Configs
  /\ tools \in BoundedSeq(ToolNames, MaxTools)
  /\ listed = NotRun
  /\ IdleEnv

\* The server hands the registered tools and the config to filterTools
FilterTools ==
  /\ listed = NotRun
  /\ listed' = [ran |-> TRUE, tools |-> filterTools(tools, config)]
  /\ UNCHANGED <<config, tools, envVars, diskVars, kmVars, procVars>>

(***************************************************************************)
(* Values on disk and in memory                                            *)
(***************************************************************************)
\* keys.lock. fs.writeFile(lockFile, data, {flag: "wx"}) is open(O_EXCL)
\* followed by write: between the two the file exists and is empty.
\* `by` is not file content: it names the process whose open() created the
\* file, so that a write through a descriptor of an unlinked file is told
\* apart from a write to the file now at the path.
NoLock ==
  [exists |-> FALSE, written |-> FALSE, pid |-> 0, old |-> FALSE, by |-> 0]
EmptyLock(p) ==
  [exists |-> TRUE, written |-> FALSE, pid |-> 0, old |-> FALSE, by |-> p]
LockOf(p, age) ==
  [exists |-> TRUE, written |-> TRUE, pid |-> p, old |-> age, by |-> p]

Procs   == 1..NumProcs
DeadPid == NumProcs + 1    \* a process id no live process has
LivePid == NumProcs + 2    \* a live process that runs no Key Manager

\* keys.json and keys.json.backup
NoStoreFile     == [exists |-> FALSE, valid |-> FALSE, keys |-> << >>, version |-> 0]
Truncated       == [exists |-> TRUE, valid |-> FALSE, keys |-> << >>, version |-> 0]
StoreFile(ks)   == [exists |-> TRUE, valid |-> TRUE, keys |-> ks, version |-> 1]

\* this.store
NullStore       == [loaded |-> FALSE, keys |-> << >>, version |-> 0]
KeyStore(ks)    == [loaded |-> TRUE, keys |-> ks, version |-> 1]

\* JSON.stringify(this.store) / JSON.parse(data)
Stringify(st)   == StoreFile(st.keys)
Parse(f)        == KeyStore(f.keys)

\* API keys are sequences of characters
KeyLen   == 32
HexChars == { "0", "1", "2", "3", "4", "5", "6", "7", "8", "9",
              "a", "b", "c", "d", "e", "f" }
Rep(c, n) == [i \in 1..n |-> c]

ValidApiKeys   == { Rep("a", KeyLen), Rep("7", KeyLen) }
InvalidApiKeys == { << >>, Rep("a", KeyLen - 1), Rep("A", KeyLen), Rep("g", KeyLen) }

\* Host names as character sequences
HostApi       == << "a", "p", "i", ".", "i", "t", "e", "r", "a", "b", "l", "e", ".", "c", "o", "m" >>
HostLocalhost == << "l", "o", "c", "a", "l", "h", "o", "s", "t" >>
HostLoopback  == << "1", "2", "7", ".", "0", ".", "0", ".", "1" >>
HostV6        == << "[", ":", ":", "1", "]" >>

\* new URL(baseUrl): the parsed form, parses = FALSE when the constructor
\* throws; hostname is what URL.hostname returns (an IPv6 literal keeps its
\* brackets)
GoodUrl  == [raw |-> "https://api.iterable.com", parses |-> TRUE,
             protocol |-> "https:", hostname |-> HostApi]
LocalUrl == [raw |-> "http://localhost:3000", parses |-> TRUE,
             protocol |-> "http:", hostname |-> HostLocalhost]
PlainUrl == [raw |-> "http://api.iterable.com", parses |-> TRUE,
             protocol |-> "http:", hostname |-> HostApi]
NotAUrl  == [raw |-> "not a url", parses |-> FALSE,
             protocol |-> "", hostname |-> << >>]
EmptyUrl == [raw |-> "", parses |-> FALSE, protocol |-> "", hostname |-> << >>]
V6Url    == [raw |-> "http://[::1]:3000", parses |-> TRUE,
             protocol |-> "http:", hostname |-> HostV6]

IdPool == << "uuid-1", "uuid-2", "uuid-3", "uuid-4", "uuid-5", "uuid-6" >>

\* Key names: an ordinary one and one that spells a generated id
GoodNames  == { "prod", "uuid-1" }
BlankNames == { "", "   " }

NoEnv == << >>

\* ApiKeyMetadata; an absent optional field is the empty sequence
KeyMeta(id, name, url, active, env) ==
  [id |-> id, name |-> name, baseUrl |-> url, isActive |-> active,
   env |-> env, apiKey |-> << >>, encryptedApiKey |-> << >>]

ProbeOutcomes == { "found", "notFound", "otherError" }

(***************************************************************************)
(* Helpers on key lists                                                    *)
(***************************************************************************)
\* The first index in hits (Array.prototype.find / findIndex), 1-based;
\* 0 when nothing matches
FirstOf(hits) ==
  IF hits = {} THEN 0 ELSE CHOOSE i \in hits : \A j \in hits : i <= j

findIndexById_orName(ks, id) ==
  FirstOf({ i \in 1..Len(ks) : ks[i].id = id \/ ks[i].name = id })

\* this.store.keys.findIndex((k) => k.id === id)
findIndexById(ks, id) == FirstOf({ i \in 1..Len(ks) : ks[i].id = id })

\* this.store.keys.find((k) => k.id === idOrName || k.name === idOrName)
findByIdOrName(ks, idOrName) ==
  FirstOf({ i \in 1..Len(ks) : ks[i].id = idOrName \/ ks[i].name = idOrName })

\* Array.prototype.splice(index, 1)
Splice(ks, i) == [j \in 1..(Len(ks) - 1) |-> IF j < i THEN ks[j] ELSE ks[j + 1]]

ActiveCount(ks) == Cardinality({ i \in 1..Len(ks) : ks[i].isActive })
NameSet(ks)     == { ks[i].name : i \in 1..Len(ks) }
IdSet(ks)       == { ks[i].id : i \in 1..Len(ks) }

(***************************************************************************)
(* Key Manager (key-manager.ts), one public operation per step             *)
(*                                                                         *)
(* The operators below take the Key Manager's fields and the disk as one   *)
(* record k and return the record after the call together with how the     *)
(* call ended.  Inputs the environment decides are parameters:             *)
(*   io      [backup, write]: whether the backup copy and the store write  *)
(*           succeed                                                       *)
(*   probes  id -> outcome of `security find-generic-password`             *)
(*   secOk   whether the add/delete Keychain command or DPAPI call succeeds*)
(***************************************************************************)
K ==
  [store |-> store, saveLock |-> saveLock, file |-> file, backup |-> backup,
   vault |-> vault, lock |-> lock, nextId |-> nextId]

Out(k, result) == [k |-> k, result |-> result, id |-> "", orphans |-> {}]

\* What is kept of a call by id or name: the string passed and the value
\* getKey resolved to (empty when it returned null, threw, or was not getKey)
NoAnswer == [arg |-> "", value |-> << >>]

\* addKey calls that may be in flight at once on one Key Manager
NumCalls == 3
Calls    == 1..NumCalls

\* The locals of an addKey call that has not been made
NoCall ==
  [at |-> "idle", name |-> "", metadata |-> KeyMeta("", "", "", FALSE, NoEnv),
   enoent |-> FALSE, then |-> "", awaits |-> Null, data |-> NoStoreFile]

IdleCalls ==
  /\ call = [c \in Calls |-> NoCall]
  /\ waiting = << >>

lockIsStale_ageOnly(raw, live) == raw.written /\ raw.old

lockIsStale_anyWritten(raw, live) == raw.written

\* The stale test of acquireLock on the content read from the lock file.
\* An empty file parses as {}: pid and created are NaN.
lockIsStale(raw, live) ==
  LET isOld    == raw.written /\ raw.old
      pidAlive == IF raw.written /\ raw.pid > 0 THEN raw.pid \in live ELSE TRUE
  IN  isOld \/ ~pidAlive

\* acquireLock when no other process touches the lock during the call:
\* a free lock is taken at once, a stale one is unlinked and taken on the
\* next attempt, a live fresh one outlasts the 20 attempts.
acquireLock(lk) ==
  IF ~lk.exists THEN "acquired"
  ELSE IF lockIsStale(lk, alive) THEN "acquired"
  ELSE "timeout"

loadMetadata_resetting(k) ==
  IF acquireLock(k.lock) = "timeout" THEN Out(k, "lockTimeout")
  ELSE LET k1 == [k EXCEPT !.lock = NoLock]
       IN  IF ~k.file.exists \/ ~k.file.valid THEN Out(k1, "ENOENT")
           ELSE Out([k1 EXCEPT !.store = Parse(k.file)], "ok")

loadMetadata(k) ==
  IF acquireLock(k.lock) = "timeout" THEN Out(k, "lockTimeout")
  ELSE LET k1 == [k EXCEPT !.lock = NoLock]
       IN  IF ~k.file.exists THEN Out(k1, "ENOENT")
           ELSE IF ~k.file.valid THEN Out(k1, "parseError")
           ELSE Out([k1 EXCEPT !.store = Parse(k.file)], "ok")

backupMetadata_ofMemory(k, io) ==
  IF ~k.file.exists THEN k
  ELSE IF io.backup = "ok" THEN [k EXCEPT !.backup = Stringify(k.store)]
  ELSE k

\* Copies keys.json to keys.json.backup; a failure is logged and ignored
backupMetadata(k, io) ==
  IF ~k.file.exists THEN k
  ELSE IF io.backup = "ok" THEN [k EXCEPT !.backup = k.file]
  ELSE k

saveMetadata_unlockOnSuccess(k, io) ==
  IF ~k.store.loaded THEN Out(k, "notInitialized")
  ELSE IF k.saveLock = "rejected" THEN Out(k, "lockTimeout")
  ELSE IF acquireLock(k.lock) = "timeout"
  THEN Out([k EXCEPT !.saveLock = "rejected"], "lockTimeout")
  ELSE LET hasKeys == k.file.exists /\ k.file.valid /\ Len(k.file.keys) > 0
           k1 == IF hasKeys THEN backupMetadata(k, io) ELSE k
           k2 == [k1 EXCEPT !.lock = LockOf(1, FALSE)]
       IN  IF io.write = "ok"
           THEN Out([k2 EXCEPT !.file = Stringify(k.store), !.lock = NoLock,
                               !.saveLock = Null], "ok")
           ELSE Out([k2 EXCEPT !.saveLock = Null], "saveFailed")

saveMetadata(k, io) ==
  IF ~k.store.loaded THEN Out(k, "notInitialized")
  ELSE IF k.saveLock = "rejected"
  THEN \* await this.saveLock rethrows the earlier rejection
       Out(k, "lockTimeout")
  ELSE IF acquireLock(k.lock) = "timeout"
  THEN \* the async block rejects before its try/finally: saveLock stays set
       Out([k EXCEPT !.saveLock = "rejected"], "lockTimeout")
  ELSE LET hasKeys == k.file.exists /\ k.file.valid /\ Len(k.file.keys) > 0
           k1 == IF hasKeys THEN backupMetadata(k, io) ELSE k
       IN  IF io.write = "ok"
           THEN Out([k1 EXCEPT !.file = Stringify(k.store), !.lock = NoLock,
                               !.saveLock = Null], "ok")
           ELSE Out([k1 EXCEPT !.lock = NoLock, !.saveLock = Null],
                    "saveFailed")

validateAndCleanup_removing(ks, probes) ==
  IF backend # "keychain" \/ Len(ks) = 0
  THEN [keys |-> ks, orphans |-> {}]
  ELSE LET orphaned(m) == probes[m.id] = "notFound"
           kept(m)     == ~orphaned(m)
       IN  [keys |-> SelectSeq(ks, kept),
            orphans |-> { ks[i].name : i \in { j \in 1..Len(ks) : orphaned(ks[j]) } }]

\* Probes the Keychain for every record; returns the store's keys as it
\* leaves them and the names it warns about
validateAndCleanup(ks, probes) ==
  IF backend # "keychain" \/ Len(ks) = 0
  THEN [keys |-> ks, orphans |-> {}]
  ELSE LET orphaned(m) == probes[m.id] = "notFound"
       IN  [keys |-> ks,
            orphans |-> { ks[i].name : i \in { j \in 1..Len(ks) : orphaned(ks[j]) } }]

initialize(k, io, probes) ==
  LET l == loadMetadata(k)
      afterLoad == IF l.result = "ENOENT"
                   THEN saveMetadata([l.k EXCEPT !.store = KeyStore(<< >>)], io)
                   ELSE l
  IN  IF afterLoad.result # "ok" THEN Out(afterLoad.k, "initFailed")
      ELSE LET v == validateAndCleanup(afterLoad.k.store.keys, probes)
           IN  [Out([afterLoad.k EXCEPT !.store.keys = v.keys], "ok")
                  EXCEPT !.orphans = v.orphans]

\* if (!this.store) await this.initialize()
ensureInitialized(k, io, probes) ==
  IF k.store.loaded THEN Out(k, "ok") ELSE initialize(k, io, probes)

generateId(n) == IdPool[n + 1]

validateApiKey(apiKey) ==
  /\ Len(apiKey) = KeyLen
  /\ \A i \in 1..Len(apiKey) : apiKey[i] \in HexChars

\* String.prototype.toLowerCase on the letters host names here are made of
toLowerCase(t) ==
  LET upper == << "A", "C", "H", "L", "O", "S", "T" >>
      lower == << "a", "c", "h", "l", "o", "s", "t" >>
      low(c) == IF \E i \in 1..Len(upper) : upper[i] = c
                THEN lower[CHOOSE i \in 1..Len(upper) : upper[i] = c]
                ELSE c
  IN  [i \in 1..Len(t) |-> low(t[i])]

startsWith(t, prefix) ==
  Len(t) >= Len(prefix) /\ SubSeq(t, 1, Len(prefix)) = prefix

isLocalhostHost(hostname) ==
  /\ hostname # << >>
  /\ LET lower == toLowerCase(hostname)
     IN  \/ lower = HostLocalhost
         \/ lower = HostLoopback
         \/ lower = << ":", ":", "1" >>
         \/ startsWith(lower, Append(HostLocalhost, ":"))

isHttpsOrLocalhost(url) ==
  url.protocol = "https:" \/ isLocalhostHost(url.hostname)

validateBaseUrl(url) ==
  /\ url.raw # ""
  /\ url.parses
  /\ isHttpsOrLocalhost(url)

\* Dpapi.protectData then base64; the blob is opaque to the Key Manager
encryptWindows(text) == << "dpapi", text >>

VaultPut_oneSlot(v, id, secret) == [x \in (DOMAIN v) \cup {id} |-> secret]

\* `security add-generic-password ... -U`: creates or updates the entry
VaultPut(v, id, secret) ==
  [x \in (DOMAIN v) \cup {id} |-> IF x = id THEN secret ELSE v[x]]

VaultRemove(v, id) == [x \in (DOMAIN v) \ {id} |-> v[x]]

\* this.store.keys.push(metadata); await this.saveMetadata(); return id
pushAndSave(k, meta, io) ==
  LET s == saveMetadata([k EXCEPT !.store.keys = Append(@, meta)], io)
  IN  [s EXCEPT !.id = meta.id]

nameExists_byId(ks, name) == \E j \in 1..Len(ks) : ks[j].id = name

\* this.store.keys.some((k) => k.name === name)
nameExists(ks, name) == \E j \in 1..Len(ks) : ks[j].name = name

isFirstKey_always(ks) == TRUE

\* const isActive = this.store.keys.length === 0
isFirstKey(ks) == Len(ks) = 0

addKey(k, name, apiKey, url, envOverrides, io, probes, secOk) ==
  LET i  == ensureInitialized(k, io, probes)
      k0 == i.k
  IN  IF i.result # "ok" THEN Out(k0, "initFailed")
      ELSE IF name \in BlankNames THEN Out(k0, "nameRequired")
      ELSE IF ~validateApiKey(apiKey) THEN Out(k0, "badApiKey")
      ELSE IF ~validateBaseUrl(url) THEN Out(k0, "badBaseUrl")
      ELSE IF nameExists(k0.store.keys, name) THEN Out(k0, "duplicateName")
      ELSE LET id   == generateId(k0.nextId)
               meta == KeyMeta(id, name, url.raw, isFirstKey(k0.store.keys),
                               envOverrides)
               k1   == [k0 EXCEPT !.nextId = @ + 1]
           IN  CASE backend = "keychain" ->
                      IF secOk
                      THEN pushAndSave([k1 EXCEPT !.vault = VaultPut(@, id, apiKey)],
                                       meta, io)
                      ELSE Out(k1, "keychainFailed")
                 [] backend = "dpapi" ->
                      IF secOk
                      THEN pushAndSave(k1, [meta EXCEPT !.encryptedApiKey =
                                                   encryptWindows(apiKey)], io)
                      ELSE Out(k1, "dpapiFailed")
                 [] OTHER ->
                      pushAndSave(k1, [meta EXCEPT !.apiKey = apiKey], io)

setActiveKey_keepingOthers(k, idOrName, io, probes) ==
  LET i  == ensureInitialized(k, io, probes)
      k0 == i.k
      ks == k0.store.keys
      index == findByIdOrName(ks, idOrName)
  IN  IF i.result # "ok" THEN Out(k0, "initFailed")
      ELSE IF index = 0 THEN Out(k0, "notFound")
      ELSE saveMetadata(
             [k0 EXCEPT !.store.keys =
                [j \in 1..Len(ks) |->
                   [ks[j] EXCEPT !.isActive = @ \/ (j = index)]]],
             io)

activateOnly_keepingOthers(ks, index) ==
  [j \in 1..Len(ks) |-> [ks[j] EXCEPT !.isActive = @ \/ (j = index)]]

\* this.store.keys.forEach((k) => { k.isActive = false });
\* keyMeta.isActive = true
activateOnly(ks, index) ==
  [j \in 1..Len(ks) |-> [ks[j] EXCEPT !.isActive = (j = index)]]

setActiveKey(k, idOrName, io, probes) ==
  LET i  == ensureInitialized(k, io, probes)
      k0 == i.k
      ks == k0.store.keys
      index == findByIdOrName(ks, idOrName)
  IN  IF i.result # "ok" THEN Out(k0, "initFailed")
      ELSE IF index = 0 THEN Out(k0, "notFound")
      ELSE saveMetadata([k0 EXCEPT !.store.keys = activateOnly(ks, index)], io)

deleteBlocked_onlyFirst(ks, index) == ks[index].isActive /\ index = 1

\* if (keyMeta.isActive) throw "Cannot delete the currently active key"
deleteBlocked(ks, index) == ks[index].isActive

deleteKey_vaultFirst(k, id, io, probes, secOk) ==
  LET i  == ensureInitialized(k, io, probes)
      k0 == i.k
      ks == k0.store.keys
      index == findIndexById(ks, id)
  IN  IF i.result # "ok" THEN Out(k0, "initFailed")
      ELSE IF index = 0 THEN Out(k0, "notFound")
      ELSE IF deleteBlocked(ks, index) THEN Out(k0, "activeKey")
      ELSE IF backend = "keychain" /\ ~secOk THEN Out(k0, "keychainFailed")
      ELSE saveMetadata([k0 EXCEPT !.vault = VaultRemove(@, id),
                                   !.store.keys = Splice(ks, index)], io)

deleteKey(k, id, io, probes, secOk) ==
  LET i  == ensureInitialized(k, io, probes)
      k0 == i.k
      ks == k0.store.keys
      index == findIndexById(ks, id)
  IN  IF i.result # "ok" THEN Out(k0, "initFailed")
      ELSE IF index = 0 THEN Out(k0, "notFound")
      ELSE IF deleteBlocked(ks, index) THEN Out(k0, "activeKey")
      ELSE LET k1 == IF backend = "keychain" /\ secOk
                     THEN [k0 EXCEPT !.vault = VaultRemove(@, id)]
                     ELSE k0
           IN  saveMetadata([k1 EXCEPT !.store.keys = Splice(ks, index)], io)

(***************************************************************************)
(* Spec: one Key Manager, calls issued one after another                   *)
(***************************************************************************)
Io == [backup : { "ok", "failed" }, write : { "ok", "failed" }]

\* The backup copy runs only over a store file that holds records
IoChoices ==
  IF file.exists /\ file.valid /\ Len(file.keys) > 0
  THEN Io
  ELSE [backup : { "ok" }, write : { "ok", "failed" }]

\* Keychain probe outcomes matter only when the call runs initialize on the
\* Keychain backend; they are drawn for the records of the store file
ProbeChoices(initializes) ==
  IF initializes /\ backend = "keychain" /\ file.exists /\ file.valid
  THEN [IdSet(file.keys) -> ProbeOutcomes]
  ELSE { << >> }

\* The backends on which the call runs a Keychain command or a DPAPI call
SecChoices(backends) == IF backend \in backends THEN BOOLEAN ELSE { TRUE }

\* A call refused for its arguments on a loaded store reaches no file and no
\* vault call: what those calls would have answered is not drawn for it
OkIo == [backup |-> "ok", write |-> "ok"]

ArgErrors ==
  { "nameRequired", "badApiKey", "badBaseUrl", "duplicateName", "notFound",
    "activeKey" }

Refused(dry) == store.loaded /\ dry.result \in ArgErrors

IoOf(dry) == IF Refused(dry) THEN { OkIo } ELSE IoChoices

SecOf(dry, backends) == IF Refused(dry) THEN { TRUE } ELSE SecChoices(backends)

\* addKey's arguments: every valid combination, and each invalid argument
\* beside valid ones
AddInputs ==
  [name : GoodNames, apiKey : { Rep("a", KeyLen) }, url : { GoodUrl },
   env : { NoEnv }]
  \cup [name : BlankNames, apiKey : { Rep("a", KeyLen) }, url : { GoodUrl },
        env : { NoEnv }]
  \cup [name : { "prod" }, apiKey : InvalidApiKeys, url : { GoodUrl },
        env : { NoEnv }]
  \cup [name : { "prod" }, apiKey : { Rep("a", KeyLen) },
        url : { LocalUrl, PlainUrl, NotAUrl, EmptyUrl, V6Url }, env : { NoEnv }]

\* Strings handed to setActiveKey and deleteKey
IdOrNames == GoodNames \cup { IdPool[i] : i \in 1..MaxKeys } \cup { "missing" }

IdleFilter ==
  /\ config = [allowUserPii |-> FALSE, allowWrites |-> FALSE,
               allowSends |-> FALSE]
  /\ tools = << >>
  /\ listed = NotRun
  /\ IdleEnv

IdleProcs ==
  /\ pc = [p \in Procs |-> "idle"]
  /\ attempt = [p \in Procs |-> 0]
  /\ seen = [p \in Procs |-> NoLock]
  /\ buf = [p \in Procs |-> NoStoreFile]
  /\ pstore = [p \in Procs |-> << >>]
  /\ initFile = << >>
  /\ initLock = NoLock

IdleKeyManager ==
  /\ store = NullStore
  /\ saveLock = Null
  /\ backend = "file"
  /\ nextId = 0
  /\ lastOp = [op |-> "new", result |-> "ok", warned |-> FALSE]
  /\ got = NoAnswer
  /\ IdleCalls

EmptyDisk ==
  /\ lock = NoLock
  /\ file = NoStoreFile
  /\ backup = NoStoreFile
  /\ vault = << >>
  /\ alive = Procs

Init ==
  /\ EmptyDisk
  /\ store = NullStore
  /\ saveLock = Null
  /\ backend \in { "keychain", "dpapi", "file" }
  /\ nextId = 0
  /\ lastOp = [op |-> "new", result |-> "ok", warned |-> FALSE]
  /\ got = NoAnswer
  /\ IdleCalls
  /\ IdleFilter
  /\ IdleProcs

\* The state after a call that returned r
Apply(r, op) ==
  /\ store' = r.k.store
  /\ saveLock' = r.k.saveLock
  /\ file' = r.k.file
  /\ backup' = r.k.backup
  /\ vault' = r.k.vault
  /\ lock' = r.k.lock
  /\ nextId' = r.k.nextId
  /\ lastOp' = [op |-> op, result |-> r.result, warned |-> r.orphans # {}]
  /\ got' = NoAnswer
  /\ UNCHANGED <<backend, alive, filterVars, procVars, callVars>>

Initialize ==
  \E io \in IoChoices, probes \in ProbeChoices(TRUE) :
    Apply(initialize(K, io, probes), "initialize")

AddKey ==
  /\ nextId < MaxKeys
  /\ \E in \in AddInputs, probes \in ProbeChoices(~store.loaded) :
       LET dry == addKey(K, in.name, in.apiKey, in.url, in.env, OkIo, probes,
                         TRUE)
       IN  \E io \in IoOf(dry), secOk \in SecOf(dry, { "keychain", "dpapi" }) :
             Apply(addKey(K, in.name, in.apiKey, in.url, in.env, io, probes,
                          secOk), "addKey")

SetActiveKey ==
  \E idOrName \in IdOrNames, probes \in ProbeChoices(~store.loaded) :
    \E io \in IoOf(setActiveKey(K, idOrName, OkIo, probes)) :
      Apply(setActiveKey(K, idOrName, io, probes), "setActiveKey")

DeleteKey ==
  \E id \in IdOrNames, probes \in ProbeChoices(~store.loaded) :
    LET dry == deleteKey(K, id, OkIo, probes, TRUE)
    IN  \E io \in IoOf(dry), secOk \in SecOf(dry, { "keychain" }) :
          Apply(deleteKey(K, id, io, probes, secOk), "deleteKey")

Next ==
  \/ Initialize
  \/ AddKey
  \/ SetActiveKey
  \/ DeleteKey

Spec == Init /\ [][Next]_vars


\* return [...this.store.keys]
listKeys(k) == k.store.keys

(***************************************************************************)
(* Properties of the Key Manager under Spec                                *)
(***************************************************************************)
FileHasKeys == file.exists /\ file.valid /\ Len(file.keys) > 0

\* Every probe reports the entry as present
AllFound == [id \in IdSet(file.keys) |-> "found"]

\* C1: starting from an empty store, after every addKey, setActiveKey or
\* deleteKey call at most one record has isActive = true, in memory and in
\* the store file; once a record exists exactly one has, and a successful
\* addKey leaves at least one record in both.
C1_OneActiveKey ==
  /\ ActiveCount(store.keys) = (IF Len(store.keys) = 0 THEN 0 ELSE 1)
  /\ ActiveCount(file.keys) = (IF Len(file.keys) = 0 THEN 0 ELSE 1)
  /\ (lastOp.op = "addKey" /\ lastOp.result = "ok"
        => Len(store.keys) > 0 /\ file.keys = store.keys)
  /\ (store.loaded /\ Len(file.keys) > 0 => Len(store.keys) > 0)

\* Two records are stored and setActiveKey has moved the flag to the second
C1_Witness ==
  /\ lastOp.op = "setActiveKey" /\ lastOp.result = "ok"
  /\ Len(store.keys) = 2
  /\ store.keys[2].isActive /\ ~store.keys[1].isActive

\* C6: deleteKey with the id of the active record fails and changes nothing
\* (records in memory, store file, backup, vault); after setActiveKey on a
\* different record the same deleteKey is no longer refused, and when its
\* save goes through it removes exactly that record from memory and file.
C6_DeleteActiveForbidden ==
  store.loaded =>
    \A i \in 1..Len(store.keys) :
      store.keys[i].isActive =>
        \A io \in Io, secOk \in BOOLEAN :
          LET id == store.keys[i].id
              r  == deleteKey(K, id, io, AllFound, secOk)
          IN  /\ r.result = "activeKey"
              /\ r.k = K
              /\ \A j \in 1..Len(store.keys) :
                   j # i =>
                     LET s == setActiveKey(K, store.keys[j].id, io, AllFound)
                         d == deleteKey(s.k, id, io, AllFound, secOk)
                     IN  s.result = "ok" =>
                           /\ d.result # "activeKey"
                           /\ listKeys(d.k) = Splice(listKeys(s.k), i)
                           /\ (io.write = "ok" =>
                                 /\ d.result = "ok"
                                 /\ d.k.file.keys = Splice(listKeys(s.k), i))

\* The record added first (active on creation) has been deleted: it was
\* deactivated by setActiveKey on the other record first
C6_Witness ==
  /\ lastOp.op = "deleteKey" /\ lastOp.result = "ok"
  /\ Len(store.keys) = 1
  /\ store.keys[1].id = generateId(1)
  /\ file.keys = store.keys

\* C7: addKey with the name of an existing record fails and leaves the
\* records, the store file, the backup and the vault as they were, and
\* generates no id: with otherwise valid arguments it is refused as a
\* duplicate whatever the file system and the vault would have answered,
\* and with other arguments invalid as well it is refused all the same.
C7_DuplicateNameRejected ==
  store.loaded =>
    \A in \in { x \in AddInputs : x.name \in NameSet(store.keys) } :
      IF validateApiKey(in.apiKey) /\ validateBaseUrl(in.url)
      THEN \A io \in Io, secOk \in BOOLEAN :
             LET r == addKey(K, in.name, in.apiKey, in.url, in.env, io,
                             AllFound, secOk)
             IN  r.result = "duplicateName" /\ r.k = K
      ELSE LET r == addKey(K, in.name, in.apiKey, in.url, in.env, OkIo,
                           AllFound, TRUE)
           IN  r.result \in ArgErrors /\ r.k = K

\* An addKey was refused for its name while another id could still be drawn
C7_Witness ==
  /\ lastOp.op = "addKey" /\ lastOp.result = "duplicateName"
  /\ Len(store.keys) >= 1
  /\ nextId < MaxKeys

InitFilter ==
  /\ InitFilterVars
  /\ EmptyDisk
  /\ IdleKeyManager
  /\ IdleProcs

NextFilter == FilterTools

SpecFilter == InitFilter /\ [][NextFilter]_vars

Listed(name) == \E j \in 1..Len(listed.tools) : listed.tools[j] = name

\* C2: for every combination of the three flags, a tool named in SEND_TOOLS
\* is excluded by filterTools whenever allowSends is false and whenever
\* allowWrites is false; it can be listed only when both are true.
C2_SendNeedsSendsAndWrites ==
  listed.ran =>
    \A i \in 1..Len(tools) :
      tools[i] \in SEND_TOOLS /\ Listed(tools[i])
        => config.allowSends /\ config.allowWrites

\* A send tool was offered with allowSends and allowUserPii on and
\* allowWrites off, and the filter dropped it
C2_Witness ==
  /\ listed.ran
  /\ config.allowSends /\ config.allowUserPii /\ ~config.allowWrites
  /\ \E i \in 1..Len(tools) : tools[i] \in SEND_TOOLS /\ ~Listed(tools[i])

\* C3: a tool named in none of NON_PII_TOOLS, READ_ONLY_TOOLS and SEND_TOOLS
\* is excluded whenever allowUserPii or allowWrites is false and included
\* when both are true, whatever allowSends is.
C3_UnknownToolDeniedByDefault ==
  listed.ran =>
    \A i \in 1..Len(tools) :
      tools[i] \notin (NON_PII_TOOLS \cup READ_ONLY_TOOLS \cup SEND_TOOLS)
        => (Listed(tools[i]) <=> config.allowUserPii /\ config.allowWrites)

\* An unclassified tool was offered with allowWrites on and allowUserPii
\* off, and the filter dropped it
C3_Witness ==
  /\ listed.ran
  /\ config.allowWrites /\ ~config.allowUserPii
  /\ \E i \in 1..Len(tools) :
       /\ tools[i] \in UnknownTools
       /\ ~Listed(tools[i])


(***************************************************************************)
(* SpecLock: several processes, each with its own Key Manager loaded from  *)
(* the same store file, each running one addKey (plain-file backend).      *)
(* Every step is one file-system call of acquireLock, saveMetadata,        *)
(* backupMetadata or the unlock function.                                  *)
(***************************************************************************)
MaxAttempts == 20

NamePool == << "prod", "staging", "dev", "qa", "test" >>

\* The record the shared store file may hold at the start
ExistingKey ==
  [KeyMeta(generateId(0), "default", GoodUrl.raw, TRUE, NoEnv)
     EXCEPT !.apiKey = Rep("7", KeyLen)]

\* Process p adds a key under a name and an id of its own
ProcKey(p, ks) ==
  [KeyMeta(generateId(p), NamePool[p], GoodUrl.raw, isFirstKey(ks), NoEnv)
     EXCEPT !.apiKey = Rep("a", KeyLen)]

InitLock ==
  /\ lock \in { NoLock, LockOf(DeadPid, FALSE) }
  /\ initLock = lock
  /\ initFile \in { << >>, << ExistingKey >> }
  /\ file = StoreFile(initFile)
  /\ backup = NoStoreFile
  /\ vault = << >>
  /\ alive = Procs
  /\ pc = [p \in Procs |-> "idle"]
  /\ attempt = [p \in Procs |-> 0]
  /\ seen = [p \in Procs |-> NoLock]
  /\ buf = [p \in Procs |-> NoStoreFile]
  /\ pstore = [p \in Procs |-> initFile]
  /\ IdleKeyManager
  /\ IdleFilter

Goto(p, label) == pc' = [pc EXCEPT ![p] = label]

\* addKey up to its save: checks, push, and saveMetadata's entry
StartAddKey(p) ==
  /\ pc[p] = "idle"
  /\ ~nameExists(pstore[p], NamePool[p])
  /\ pstore' = [pstore EXCEPT ![p] = Append(@, ProcKey(p, @))]
  /\ attempt' = [attempt EXCEPT ![p] = 0]
  /\ Goto(p, "create")
  /\ UNCHANGED <<seen, buf, initFile, initLock, diskVars, kmVars, filterVars>>

\* acquireLock: open(lockFile, O_CREAT | O_EXCL)
CreateLock(p) ==
  /\ pc[p] = "create"
  /\ IF lock.exists
     THEN /\ Goto(p, "readLock")
          /\ UNCHANGED lock
     ELSE /\ lock' = EmptyLock(p)
          /\ Goto(p, "writeLock")
  /\ UNCHANGED <<attempt, seen, buf, pstore, initFile, initLock, file, backup,
                 vault, alive, kmVars, filterVars>>

\* acquireLock: write {pid, created} through the descriptor just opened
WriteLock(p) ==
  /\ pc[p] = "writeLock"
  /\ lock' = IF lock.exists /\ lock.by = p THEN LockOf(p, FALSE) ELSE lock
  /\ Goto(p, "readStore")
  /\ UNCHANGED <<attempt, seen, buf, pstore, initFile, initLock, file, backup,
                 vault, alive, kmVars, filterVars>>

\* acquireLock after EEXIST: fs.readFile(lockFile); a failed read goes
\* straight to the wait
ReadLock(p) ==
  /\ pc[p] = "readLock"
  /\ IF lock.exists
     THEN /\ seen' = [seen EXCEPT ![p] = lock]
          /\ Goto(p, "checkLock")
     ELSE /\ Goto(p, "wait")
          /\ UNCHANGED seen
  /\ UNCHANGED <<attempt, buf, pstore, initFile, initLock, diskVars, kmVars,
                 filterVars>>

\* acquireLock: the age test and process.kill(pid, 0)
CheckLock(p) ==
  /\ pc[p] = "checkLock"
  /\ Goto(p, IF lockIsStale(seen[p], alive) THEN "unlinkStale" ELSE "wait")
  /\ UNCHANGED <<attempt, seen, buf, pstore, initFile, initLock, diskVars,
                 kmVars, filterVars>>

\* acquireLock: fs.unlink(lockFile).catch(() => {})
UnlinkStale(p) ==
  /\ pc[p] = "unlinkStale"
  /\ lock' = NoLock
  /\ Goto(p, "wait")
  /\ UNCHANGED <<attempt, seen, buf, pstore, initFile, initLock, file, backup,
                 vault, alive, kmVars, filterVars>>

\* acquireLock: the 50 ms wait and the loop's attempt++; after the last
\* attempt the loop ends and acquireLock throws
Retry(p) ==
  /\ pc[p] = "wait"
  /\ attempt' = [attempt EXCEPT ![p] = @ + 1]
  /\ Goto(p, IF attempt[p] + 1 < MaxAttempts THEN "create" ELSE "lockFailed")
  /\ UNCHANGED <<seen, buf, pstore, initFile, initLock, diskVars, kmVars,
                 filterVars>>

\* saveMetadata: read and parse the existing store file
ReadStore(p) ==
  /\ pc[p] = "readStore"
  /\ Goto(p, IF file.exists /\ file.valid /\ Len(file.keys) > 0
             THEN "backupRead" ELSE "truncate")
  /\ UNCHANGED <<attempt, seen, buf, pstore, initFile, initLock, diskVars,
                 kmVars, filterVars>>

\* backupMetadata: fs.readFile(metadataFile)
BackupRead(p) ==
  /\ pc[p] = "backupRead"
  /\ buf' = [buf EXCEPT ![p] = file]
  /\ Goto(p, IF file.exists THEN "backupWrite" ELSE "truncate")
  /\ UNCHANGED <<attempt, seen, pstore, initFile, initLock, diskVars, kmVars,
                 filterVars>>

\* backupMetadata: fs.writeFile(backupFile, data)
BackupWrite(p) ==
  /\ pc[p] = "backupWrite"
  /\ backup' = buf[p]
  /\ Goto(p, "truncate")
  /\ UNCHANGED <<attempt, seen, buf, pstore, initFile, initLock, lock, file,
                 vault, alive, kmVars, filterVars>>

\* saveMetadata: fs.writeFile(metadataFile, ...) opens with O_TRUNC ...
TruncateStore(p) ==
  /\ pc[p] = "truncate"
  /\ file' = Truncated
  /\ Goto(p, "writeStore")
  /\ UNCHANGED <<attempt, seen, buf, pstore, initFile, initLock, lock, backup,
                 vault, alive, kmVars, filterVars>>

\* ... and writes JSON.stringify(this.store)
WriteStore(p) ==
  /\ pc[p] = "writeStore"
  /\ file' = Stringify(KeyStore(pstore[p]))
  /\ Goto(p, "unlockRead")
  /\ UNCHANGED <<attempt, seen, buf, pstore, initFile, initLock, lock, backup,
                 vault, alive, kmVars, filterVars>>

\* unlock: read the lock file; a lock naming another pid is left alone, an
\* unreadable or empty one is removed
UnlockRead(p) ==
  /\ pc[p] = "unlockRead"
  /\ seen' = [seen EXCEPT ![p] = lock]
  /\ Goto(p, IF lock.exists /\ lock.written /\ lock.pid # p
             THEN "done" ELSE "unlockUnlink")
  /\ UNCHANGED <<attempt, buf, pstore, initFile, initLock, diskVars, kmVars,
                 filterVars>>

\* unlock: fs.unlink(lockFile), errors ignored
UnlockUnlink(p) ==
  /\ pc[p] = "unlockUnlink"
  /\ lock' = NoLock
  /\ Goto(p, "done")
  /\ UNCHANGED <<attempt, seen, buf, pstore, initFile, initLock, file, backup,
                 vault, alive, kmVars, filterVars>>

\* Time passes: the lock file becomes older than maxLockAgeMs
AgeLock ==
  /\ lock.exists /\ lock.written /\ ~lock.old
  /\ lock' = [lock EXCEPT !.old = TRUE]
  /\ UNCHANGED <<file, backup, vault, alive, procVars, kmVars, filterVars>>

NextLock ==
  \/ AgeLock
  \/ \E p \in Procs :
    \/ StartAddKey(p)
    \/ CreateLock(p)
    \/ WriteLock(p)
    \/ ReadLock(p)
    \/ CheckLock(p)
    \/ UnlinkStale(p)
    \/ Retry(p)
    \/ ReadStore(p)
    \/ BackupRead(p)
    \/ BackupWrite(p)
    \/ TruncateStore(p)
    \/ WriteStore(p)
    \/ UnlockRead(p)
    \/ UnlockUnlink(p)

SpecLock == InitLock /\ [][NextLock]_vars

\* p has acquired the lock (acquireLock returned) and has not yet called
\* its unlock function
HoldsLock(p) ==
  pc[p] \in { "readStore", "backupRead", "backupWrite", "truncate", "writeStore" }


\* C4 (as claimed): at no time have two processes both acquired the store
\* lock without having released it, whatever the interleaving of the file
\* steps and also when a stale lock file exists at the start.
C4_MutualExclusion ==
  \A p \in Procs : \A q \in Procs :
    (p # q) => ~(HoldsLock(p) /\ HoldsLock(q))

\* C5 (as claimed): when the processes, loaded from the same store file,
\* have all returned from their addKey of distinct names, every call has
\* succeeded and the store file holds the earlier records and every added
\* one.
C5_BothRecordsStored ==
  (\A p \in Procs : pc[p] \in { "done", "lockFailed" }) =>
     /\ \A p \in Procs : pc[p] = "done"
     /\ file.exists /\ file.valid
     /\ Len(file.keys) = Len(initFile) + NumProcs
     /\ NameSet(file.keys) = NameSet(initFile) \cup { NamePool[p] : p \in Procs }

(***************************************************************************)
(* SpecSolo: one process runs its addKey while no other process of the     *)
(* store contends; the lock file found at the start is absent, left by a   *)
(* dead process, or held by a live process that keeps it.                  *)
(***************************************************************************)
StartLocks ==
  { NoLock, EmptyLock(DeadPid) }
    \cup { LockOf(h, age) : h \in { DeadPid, LivePid }, age \in BOOLEAN }

InitSolo ==
  /\ lock \in StartLocks
  /\ initLock = lock
  /\ initFile \in { << >>, << ExistingKey >> }
  /\ file = StoreFile(initFile)
  /\ backup = NoStoreFile
  /\ vault = << >>
  /\ alive = Procs \cup { LivePid }
  /\ pc = [p \in Procs |-> "idle"]
  /\ attempt = [p \in Procs |-> 0]
  /\ seen = [p \in Procs |-> NoLock]
  /\ buf = [p \in Procs |-> NoStoreFile]
  /\ pstore = [p \in Procs |-> initFile]
  /\ IdleKeyManager
  /\ IdleFilter

Alone(p) == \A q \in Procs \ {p} : pc[q] = "idle"

NextSolo ==
  \E p \in Procs :
    \/ Alone(p) /\ StartAddKey(p)
    \/ Alone(p) /\ CreateLock(p)
    \/ Alone(p) /\ WriteLock(p)
    \/ Alone(p) /\ ReadLock(p)
    \/ Alone(p) /\ CheckLock(p)
    \/ Alone(p) /\ UnlinkStale(p)
    \/ Alone(p) /\ Retry(p)
    \/ Alone(p) /\ ReadStore(p)
    \/ Alone(p) /\ BackupRead(p)
    \/ Alone(p) /\ BackupWrite(p)
    \/ Alone(p) /\ TruncateStore(p)
    \/ Alone(p) /\ WriteStore(p)
    \/ Alone(p) /\ UnlockRead(p)
    \/ Alone(p) /\ UnlockUnlink(p)

\* The event loop runs the next step of the only running call
SpecSolo == InitSolo /\ [][NextSolo]_vars /\ WF_vars(NextSolo)

DeadHolder == initLock.written /\ initLock.pid \notin alive

\* C10: a process that enters acquireLock while the lock file names a dead
\* process, with nobody else holding or contending, comes to hold a lock of
\* its own on its second attempt: it has deleted the dead process's lock
\* and has not run out of attempts.
C10_DeadLockReclaimed ==
  \A p \in Procs :
    (pc[p] = "create" /\ attempt[p] = 0 /\ DeadHolder)
      ~> (HoldsLock(p) /\ attempt[p] = 1 /\ lock = LockOf(p, FALSE))

C10_Witness ==
  \E p \in Procs :
    /\ DeadHolder /\ ~initLock.old
    /\ pc[p] = "readStore" /\ attempt[p] = 1
    /\ lock = LockOf(p, FALSE)


LiveFreshHolder == initLock = LockOf(LivePid, FALSE)

\* C11: while a lock file naming a live process and younger than 5 minutes
\* stays in place, a save never deletes or replaces it and writes neither
\* the store file nor the backup, and acquireLock, once entered, ends by
\* throwing after its 20 attempts.
C11_LiveLockFailsClosed ==
  /\ [](LiveFreshHolder =>
          /\ lock = initLock
          /\ file = StoreFile(initFile)
          /\ backup = NoStoreFile
          /\ \A p \in Procs :
               /\ ~HoldsLock(p)
               /\ pc[p] \notin { "writeLock", "unlinkStale", "unlockRead",
                                 "unlockUnlink", "done" }
               /\ (pc[p] = "lockFailed" => attempt[p] = MaxAttempts))
  /\ \A p \in Procs :
       (pc[p] = "create" /\ attempt[p] = 0 /\ LiveFreshHolder)
         ~> (pc[p] = "lockFailed" /\ attempt[p] = MaxAttempts)

C11_Witness ==
  \E p \in Procs :
    /\ LiveFreshHolder
    /\ initFile # << >>
    /\ pc[p] = "lockFailed" /\ attempt[p] = MaxAttempts
    /\ lock = LockOf(LivePid, FALSE)
    /\ file = StoreFile(initFile)


\* C12 (as claimed): the unlink of an unlock function never removes a lock
\* file that another process created.
C12_UnlockSparesOthersLock ==
  [][\A p \in Procs :
       (pc[p] = "unlockUnlink" /\ pc'[p] = "done" /\ lock.exists)
         => lock.by = p]_vars


(***************************************************************************)
(* SpecCrash: SpecSolo where the running process may die between any two   *)
(* of its file steps.                                                      *)
(***************************************************************************)
Crash(p) ==
  /\ Alone(p)
  /\ pc[p] \notin { "idle", "done", "lockFailed", "crashed" }
  /\ Goto(p, "crashed")
  /\ alive' = alive \ {p}
  /\ UNCHANGED <<attempt, seen, buf, pstore, initFile, initLock, lock, file,
                 backup, vault, kmVars, filterVars>>

NextCrash ==
  \/ NextSolo
  \/ \E p \in Procs : Crash(p)

SpecCrash == InitSolo /\ [][NextCrash]_vars

\* C13 (as claimed): after a crash at any step of a save over an existing
\* store file, the store file holds the complete content it had before the
\* save or the complete new content.
C13_CrashLeavesOldOrNew ==
  \A p \in Procs :
    pc[p] = "crashed" =>
      \/ file = StoreFile(initFile)
      \/ file = Stringify(KeyStore(pstore[p]))


(***************************************************************************)
(* SpecConfig: server start-up, IterableMcpServer.run                      *)
(***************************************************************************)
\* createAllTools: one tool of each kind stands for the registered tools
AllTools ==
  << "get_campaign", "get_user_by_email", "create_list", "update_user",
     "send_campaign", "send_email", "track_event" >>

InitConfig ==
  /\ penv \in PermissionEnvs
  /\ kenv \in KeyEnvs
  /\ menv0 = NoInstallEnv
  /\ menv = NoInstallEnv
  /\ enforced = 0
  /\ config = [allowUserPii |-> FALSE, allowWrites |-> FALSE,
               allowSends |-> FALSE]
  /\ tools = AllTools
  /\ listed = NotRun
  /\ EmptyDisk
  /\ IdleKeyManager
  /\ IdleProcs

\* run(): mcpConfig = await loadMcpServerConfig();
\*        this.tools = filterTools(allTools, mcpConfig)
Run ==
  /\ listed = NotRun
  /\ config' = loadMcpServerConfig(kenv, penv)
  /\ listed' = [ran |-> TRUE, tools |-> filterTools(tools, config')]
  /\ UNCHANGED <<tools, envVars, diskVars, kmVars, procVars>>

NextConfig == Run

SpecConfig == InitConfig /\ [][NextConfig]_vars

\* C14 (as claimed): the config run() passes to filterTools never has
\* allowSends true together with allowWrites false.
C14_StartupSendsImplyWrites ==
  listed.ran => ~(config.allowSends /\ ~config.allowWrites)

\* The value the claim gives a flag: the override when the key defines it,
\* the process environment otherwise, and true only for the string "true"
FlagAsClaimed(name) ==
  IF kenv.defined /\ kenv.vars[name] # Absent
  THEN kenv.vars[name] = "true"
  ELSE penv[name] = "true"

\* C15: each flag resolveAllowFlags returns is true iff the per-key override
\* is defined and is "true", or it is absent and the process environment
\* value is "true"; it depends on no other variable, and with neither set it
\* is false.
C15_OverrideThenEnvironment ==
  listed.ran =>
    /\ config.allowUserPii = FlagAsClaimed("ITERABLE_USER_PII")
    /\ config.allowWrites = FlagAsClaimed("ITERABLE_ENABLE_WRITES")
    /\ config.allowSends = FlagAsClaimed("ITERABLE_ENABLE_SENDS")
    /\ (~kenv.defined /\ penv = NoPermissionEnv
          => config = [allowUserPii |-> FALSE, allowWrites |-> FALSE,
                       allowSends |-> FALSE])

\* The override says PII "true" against an environment "false", and writes
\* come from the environment; an empty-string override for sends wins over
\* an environment "true"
C15_Witness ==
  /\ listed.ran
  /\ kenv.defined
  /\ kenv.vars.ITERABLE_USER_PII = "true" /\ penv.ITERABLE_USER_PII = "false"
  /\ kenv.vars.ITERABLE_ENABLE_WRITES = Absent
  /\ penv.ITERABLE_ENABLE_WRITES = "true"
  /\ kenv.vars.ITERABLE_ENABLE_SENDS = "" /\ penv.ITERABLE_ENABLE_SENDS = "true"
  /\ config = [allowUserPii |-> TRUE, allowWrites |-> TRUE, allowSends |-> FALSE]

(***************************************************************************)
(* SpecInstall: the install flow's env object and its normalisation        *)
(***************************************************************************)
InitInstall ==
  /\ menv0 \in InstallEnvs
  /\ menv = menv0
  /\ enforced = 0
  /\ penv = NoPermissionEnv
  /\ kenv = UndefinedKeyEnv
  /\ config = [allowUserPii |-> FALSE, allowWrites |-> FALSE,
               allowSends |-> FALSE]
  /\ tools = << >>
  /\ listed = NotRun
  /\ EmptyDisk
  /\ IdleKeyManager
  /\ IdleProcs

\* mcpEnv = enforceSendsRequiresWrites(mcpEnv, ...)
Enforce ==
  /\ enforced < MaxEnforce
  /\ menv' = enforceSendsRequiresWrites(menv)
  /\ enforced' = enforced + 1
  /\ UNCHANGED <<menv0, penv, kenv, config, tools, listed, diskVars, kmVars,
                 procVars>>

NextInstall == Enforce

SpecInstall == InitInstall /\ [][NextInstall]_vars

\* C16: after enforceSendsRequiresWrites, ITERABLE_ENABLE_SENDS is "false"
\* where it was "true" with ITERABLE_ENABLE_WRITES not "true" and is what it
\* was otherwise, every other entry is what it was, sends is never "true"
\* with writes not "true", and further calls change nothing.
C16_SendsRequireWrites ==
  enforced >= 1 =>
    /\ menv.ITERABLE_ENABLE_SENDS =
         (IF menv0.ITERABLE_ENABLE_SENDS = "true"
             /\ menv0.ITERABLE_ENABLE_WRITES # "true"
          THEN "false" ELSE menv0.ITERABLE_ENABLE_SENDS)
    /\ menv.ITERABLE_ENABLE_WRITES = menv0.ITERABLE_ENABLE_WRITES
    /\ menv.ITERABLE_USER_PII = menv0.ITERABLE_USER_PII
    /\ menv.LOG_LEVEL = menv0.LOG_LEVEL
    /\ ~(menv.ITERABLE_ENABLE_SENDS = "true"
           /\ menv.ITERABLE_ENABLE_WRITES # "true")
    /\ menv = enforceSendsRequiresWrites(menv0)
    /\ enforceSendsRequiresWrites(menv) = menv

\* Sends "true" with writes unset was normalised, and a second call kept it
C16_Witness ==
  /\ enforced = 2
  /\ menv0.ITERABLE_ENABLE_SENDS = "true"
  /\ menv0.ITERABLE_ENABLE_WRITES = Absent
  /\ menv0.LOG_LEVEL = "debug"
  /\ menv = [menv0 EXCEPT !.ITERABLE_ENABLE_SENDS = "false"]


\* The positions of the input list the three rules let through
Survivors ==
  { i \in 1..Len(tools) :
      /\ (config.allowUserPii \/ tools[i] \in NON_PII_TOOLS)
      /\ (config.allowWrites \/ tools[i] \in READ_ONLY_TOOLS)
      /\ (config.allowSends \/ tools[i] \notin SEND_TOOLS) }

\* C17: filterTools returns exactly the input tools that pass all three
\* rules, each once and in input order; with all three flags true it returns
\* the input list.
C17_FilterIsExactSublist ==
  listed.ran =>
    /\ Len(listed.tools) = Cardinality(Survivors)
    /\ \A j \in 1..Len(listed.tools) :
         \E i \in Survivors :
           /\ Cardinality({ k \in Survivors : k <= i }) = j
           /\ listed.tools[j] = tools[i]
    /\ (config.allowUserPii /\ config.allowWrites /\ config.allowSends
          => listed.tools = tools)

\* With writes off and PII on, of a write tool followed by a read-only one
\* the first is dropped and the second kept
C17_Witness ==
  /\ listed.ran
  /\ Len(tools) = 2 /\ tools[1] # tools[2]
  /\ ~config.allowWrites /\ config.allowUserPii
  /\ tools[1] = "create_list" /\ tools[2] = "get_user_by_email"
  /\ listed.tools = << "get_user_by_email" >>

\* C20 (as claimed): on every backend and after any sequence of calls, no
\* record listKeys returns has an apiKey field holding the secret.
C20_ListKeysHidesSecrets ==
  store.loaded =>
    \A i \in 1..Len(listKeys(K)) : listKeys(K)[i].apiKey = << >>


(***************************************************************************)
(* SpecLookup: one Key Manager over a store file that already holds        *)
(* records, calls by id or name                                            *)
(*                                                                         *)
(* keys.json is read as it is (JSON.parse, no check of its records), so    *)
(* the model starts from store files in both orders of two records of      *)
(* which one is named like the other's id.                                 *)
(***************************************************************************)
\* The records: id "uuid-1" named "prod", id "uuid-2" named "uuid-1", and
\* id "uuid-3" named "staging"
LookupNames == [ n \in { "uuid-1", "uuid-2", "uuid-3" } |->
                 IF n = "uuid-1" THEN "prod"
                 ELSE IF n = "uuid-2" THEN "uuid-1" ELSE "staging" ]

\* The secret stored for each id; the first and the third are the same
LookupSecret == [ n \in { "uuid-1", "uuid-2", "uuid-3" } |->
                  IF n = "uuid-2" THEN Rep("7", KeyLen) ELSE Rep("a", KeyLen) ]

\* The record addKey wrote for id on backend b
StoredKey(id, active, b) ==
  LET meta == KeyMeta(id, LookupNames[id], GoodUrl.raw, active, NoEnv)
  IN  CASE b = "keychain" -> meta
        [] b = "dpapi" ->
             [meta EXCEPT !.encryptedApiKey = encryptWindows(LookupSecret[id])]
        [] OTHER -> [meta EXCEPT !.apiKey = LookupSecret[id]]

\* Dpapi.unprotectData of the base64 blob
decryptWindows(blob) == blob[2]

SpreadEnv_replacing(old, overrides) == overrides

\* { ...(keyMeta.env || {}), ...envOverrides }
SpreadEnv(old, overrides) ==
  [n \in (DOMAIN old) \cup (DOMAIN overrides) |->
     IF n \in DOMAIN overrides THEN overrides[n] ELSE old[n]]

\* String.prototype.trim on a sequence of characters
trim(t) ==
  LET inked == { i \in 1..Len(t) : t[i] \notin { " ", "\t", "\n" } }
  IN  IF inked = {} THEN << >>
      ELSE SubSeq(t, CHOOSE i \in inked : \A j \in inked : i <= j,
                     CHOOSE i \in inked : \A j \in inked : j <= i)

Got(k, result, value) == [k |-> k, result |-> result, value |-> value,
                          orphans |-> {}]

getKey_nullOnFailure(k, idOrName, io, probes, secOk) ==
  LET i  == ensureInitialized(k, io, probes)
      k0 == i.k
      ks == k0.store.keys
      index == findByIdOrName(ks, idOrName)
      held  == IF index = 0 THEN << >>
               ELSE CASE backend = "keychain" ->
                           IF secOk /\ ks[index].id \in DOMAIN k0.vault
                           THEN trim(k0.vault[ks[index].id]) ELSE << >>
                      [] backend = "dpapi" ->
                           IF ks[index].encryptedApiKey # << >>
                           THEN IF secOk
                                THEN decryptWindows(ks[index].encryptedApiKey)
                                ELSE << >>
                           ELSE ks[index].apiKey
                      [] OTHER -> ks[index].apiKey
  IN  IF i.result # "ok" THEN Got(k0, "initFailed", << >>)
      ELSE IF held = << >> THEN Got(k0, "null", << >>)
      ELSE Got(k0, "ok", held)

getKey(k, idOrName, io, probes, secOk) ==
  LET i  == ensureInitialized(k, io, probes)
      k0 == i.k
      ks == k0.store.keys
      index == findByIdOrName(ks, idOrName)
  IN  IF i.result # "ok" THEN Got(k0, "initFailed", << >>)
      ELSE IF index = 0 THEN Got(k0, "null", << >>)
      ELSE LET keyMeta == ks[index]
           IN  CASE backend = "keychain" ->
                      IF /\ secOk
                         /\ keyMeta.id \in DOMAIN k0.vault
                         /\ trim(k0.vault[keyMeta.id]) # << >>
                      THEN Got(k0, "ok", trim(k0.vault[keyMeta.id]))
                      ELSE Got(k0, "keychainFailed", << >>)
                 [] backend = "dpapi" ->
                      IF keyMeta.encryptedApiKey # << >>
                      THEN IF secOk
                           THEN Got(k0, "ok",
                                    decryptWindows(keyMeta.encryptedApiKey))
                           ELSE Got(k0, "dpapiFailed", << >>)
                      ELSE IF keyMeta.apiKey # << >>
                      THEN Got(k0, "ok", keyMeta.apiKey)
                      ELSE Got(k0, "noSecret", << >>)
                 [] OTHER ->
                      IF keyMeta.apiKey = << >>
                      THEN Got(k0, "noSecret", << >>)
                      ELSE Got(k0, "ok", keyMeta.apiKey)

updateKeyEnv(k, idOrName, envOverrides, io, probes) ==
  LET i  == ensureInitialized(k, io, probes)
      k0 == i.k
      ks == k0.store.keys
      index == findByIdOrName(ks, idOrName)
  IN  IF i.result # "ok" THEN Out(k0, "initFailed")
      ELSE IF index = 0 THEN Out(k0, "notFound")
      ELSE saveMetadata(
             [k0 EXCEPT !.store.keys[index].env = SpreadEnv(@, envOverrides)],
             io)

InitLookup ==
  /\ backend \in { "keychain", "dpapi", "file" }
  /\ \E order \in { << "uuid-1", "uuid-2" >>, << "uuid-2", "uuid-1" >> },
        a \in 1..2 :
       /\ file = StoreFile([j \in 1..Len(order) |->
                              StoredKey(order[j], j = a, backend)])
       /\ nextId = Len(order)
       /\ vault = IF backend = "keychain"
                  THEN [id \in { order[j] : j \in 1..Len(order) } |->
                          LookupSecret[id]]
                  ELSE << >>
  /\ lock = NoLock
  /\ backup = NoStoreFile
  /\ alive = Procs
  /\ store = NullStore
  /\ saveLock = Null
  /\ lastOp = [op |-> "new", result |-> "ok", warned |-> FALSE]
  /\ got = NoAnswer
  /\ IdleCalls
  /\ IdleFilter
  /\ IdleProcs

\* The state after a call by id or name that returned r
Answer(r, op, idOrName, value) ==
  /\ store' = r.k.store
  /\ saveLock' = r.k.saveLock
  /\ file' = r.k.file
  /\ backup' = r.k.backup
  /\ vault' = r.k.vault
  /\ lock' = r.k.lock
  /\ nextId' = r.k.nextId
  /\ lastOp' = [op |-> op, result |-> r.result, warned |-> r.orphans # {}]
  /\ got' = [arg |-> idOrName, value |-> value]
  /\ UNCHANGED <<backend, alive, filterVars, procVars, callVars>>

GetKey ==
  \E idOrName \in IdOrNames, probes \in ProbeChoices(~store.loaded),
     secOk \in SecChoices({ "keychain", "dpapi" }) :
    LET r == getKey(K, idOrName, OkIo, probes, secOk)
    IN  Answer(r, "getKey", idOrName, r.value)

ActivateKey ==
  \E idOrName \in IdOrNames, probes \in ProbeChoices(~store.loaded) :
    \E io \in IoOf(setActiveKey(K, idOrName, OkIo, probes)) :
      Answer(setActiveKey(K, idOrName, io, probes), "setActiveKey", idOrName,
             << >>)

UpdateKeyEnv ==
  \E idOrName \in IdOrNames, overrides \in { [ITERABLE_USER_PII |-> "true"] },
     probes \in ProbeChoices(~store.loaded) :
    \E io \in IoOf(updateKeyEnv(K, idOrName, overrides, OkIo, probes)) :
      Answer(updateKeyEnv(K, idOrName, overrides, io, probes), "updateKeyEnv",
             idOrName, << >>)

RemoveKey ==
  \E id \in IdOrNames, probes \in ProbeChoices(~store.loaded) :
    LET dry == deleteKey(K, id, OkIo, probes, TRUE)
    IN  \E io \in IoOf(dry), secOk \in SecOf(dry, { "keychain" }) :
          Answer(deleteKey(K, id, io, probes, secOk), "deleteKey", id, << >>)

NextLookup ==
  \/ GetKey
  \/ ActivateKey
  \/ UpdateKeyEnv
  \/ RemoveKey

SpecLookup == InitLookup /\ [][NextLookup]_vars

\* The records a call finds: this.store's, or those initialize loads
KeysBefore == IF store.loaded THEN store.keys ELSE file.keys

\* C18: after a successful setActiveKey exactly one record is active and it
\* is one the argument matches by id or by name; the records are the same,
\* in the same order, and differ from before in isActive at most; the store
\* file holds that list, so it never shows the list with every record
\* inactive.
C18_SetActiveFlipsOneFlag ==
  [][(lastOp'.op = "setActiveKey" /\ lastOp'.result = "ok") =>
       LET before == KeysBefore
           after  == store'.keys
       IN  /\ Len(after) = Len(before)
           /\ \E i \in 1..Len(after) :
                /\ after[i].id = got'.arg \/ after[i].name = got'.arg
                /\ \A j \in 1..Len(after) : after[j].isActive <=> (j = i)
           /\ \A j \in 1..Len(after) :
                [after[j] EXCEPT !.isActive = before[j].isActive] = before[j]
           /\ file' = StoreFile(after)
           /\ ActiveCount(file'.keys) = 1]_vars

\* The second record was made active by its name in place of the first: the
\* backup holds the list as it was before the save
C18_Witness ==
  /\ lastOp.op = "setActiveKey" /\ lastOp.result = "ok"
  /\ got.arg = "prod" /\ store.keys[2].name = "prod"
  /\ store.keys[2].isActive /\ ~store.keys[1].isActive
  /\ backup.exists /\ backup.valid /\ backup.keys[1].isActive
  /\ file = StoreFile(store.keys)

\* idOrName is the id of one record of ks and the name of a different one
Ambiguous(ks, idOrName) ==
  \E i, j \in 1..Len(ks) :
    i # j /\ ks[i].id = idOrName /\ ks[j].name = idOrName

\* C19 (as claimed): when idOrName is the id of one record and the name of
\* another, getKey returns the secret of the record with that id,
\* setActiveKey makes that record the active one and updateKeyEnv changes no
\* other record's env, whichever of the two comes first in the store.
C19_IdMatchWins ==
  [][(/\ lastOp'.result = "ok"
      /\ lastOp'.op \in { "getKey", "setActiveKey", "updateKeyEnv" }
      /\ Ambiguous(store'.keys, got'.arg)) =>
       LET after == store'.keys
           i     == findIndexById(after, got'.arg)
       IN  /\ lastOp'.op = "getKey" => got'.value = LookupSecret[got'.arg]
           /\ lastOp'.op = "setActiveKey" => after[i].isActive
           /\ lastOp'.op = "updateKeyEnv" =>
                \A j \in (1..Len(after)) \ { i } :
                  after[j].env = KeysBefore[j].env]_vars


\* C21 (as claimed): an addKey refused for its name, its secret or its
\* endpoint has touched neither the store file, the backup nor the vault, and leaves the records as they were, whether or not the store was
\* loaded before the call.
C21_ValidationBeforeIo ==
  [][(/\ lastOp'.op = "addKey"
      /\ lastOp'.result \in { "nameRequired", "badApiKey", "badBaseUrl" }) =>
       /\ file' = file
       /\ backup' = backup
       /\ vault' = vault
       /\ store'.keys = store.keys]_vars

\* C30 (as claimed): the endpoint check accepts a URL exactly when it parses
\* and is https, or is http with host localhost, 127.0.0.1 or ::1 (written
\* [::1] in a URL).
C30_LoopbackHostsAccepted ==
  (lastOp.op = "addKey" /\ lastOp.result = "badBaseUrl") =>
    \A url \in { GoodUrl, LocalUrl, PlainUrl, NotAUrl, EmptyUrl, V6Url } :
      validateBaseUrl(url) <=>
        /\ url.parses
        /\ \/ url.protocol = "https:"
           \/ /\ url.protocol = "http:"
              /\ url.hostname \in { HostLocalhost, HostLoopback, HostV6 }


\* C23: on the Keychain backend, deleting an existing inactive record ends
\* the same way, with the same records in memory and in the store file,
\* whether `security delete-generic-password` fails or not; when the save
\* goes through the call returns and the record is gone from both.
C23_DeleteSurvivesVaultFailure ==
  backend = "keychain" =>
    \A id \in IdOrNames, io \in Io, probes \in ProbeChoices(~store.loaded) :
      LET index  == findIndexById(KeysBefore, id)
          failed == deleteKey(K, id, io, probes, FALSE)
          worked == deleteKey(K, id, io, probes, TRUE)
      IN  (index # 0 /\ ~KeysBefore[index].isActive) =>
            /\ failed.result = worked.result
            /\ failed.k.store = worked.k.store
            /\ failed.k.file = worked.k.file
            /\ io.write = "ok" =>
                 /\ failed.result = "ok"
                 /\ id \notin IdSet(failed.k.store.keys)
                 /\ failed.k.file = StoreFile(failed.k.store.keys)
                 /\ Len(failed.k.store.keys) = Len(KeysBefore) - 1

\* A record was deleted while its Keychain entry stayed behind
C23_Witness ==
  /\ backend = "keychain"
  /\ lastOp.op = "deleteKey" /\ lastOp.result = "ok"
  /\ got.arg \notin IdSet(store.keys)
  /\ got.arg \in DOMAIN vault
  /\ file = StoreFile(store.keys)

ScanIds == << "uuid-1", "uuid-2", "uuid-3" >>

\* What is left of each record's secret
Holes ==
  [ { ScanIds[j] : j \in 1..3 } ->
      IF backend = "keychain" THEN { "kept", "lost", "blank" }
      ELSE { "kept", "lost" } ]

ScanKey(id, active, hole) ==
  IF hole = "kept" THEN StoredKey(id, active, backend)
  ELSE KeyMeta(id, LookupNames[id], GoodUrl.raw, active, NoEnv)

InitScan ==
  /\ backend \in { "keychain", "dpapi", "file" }
  /\ \/ file \in { NoStoreFile, Truncated } /\ vault = << >>
     \/ \E holes \in Holes :
          /\ file = StoreFile([j \in 1..3 |->
                                 ScanKey(ScanIds[j], j = 1, holes[ScanIds[j]])])
          /\ vault = IF backend = "keychain"
                     THEN [id \in { x \in DOMAIN holes : holes[x] # "lost" } |->
                             IF holes[id] = "kept" THEN LookupSecret[id]
                             ELSE << " " >>]
                     ELSE << >>
  /\ nextId = IF file.exists /\ file.valid THEN 3 ELSE 0
  /\ lock \in { NoLock, LockOf(DeadPid, FALSE) }
  /\ backup = NoStoreFile
  /\ alive = Procs
  /\ store = NullStore
  /\ saveLock = Null
  /\ lastOp = [op |-> "new", result |-> "ok", warned |-> FALSE]
  /\ got = NoAnswer
  /\ IdleCalls
  /\ IdleFilter
  /\ IdleProcs

\* The secret findKeyByValue's loop body retrieves for keyMeta: thrown is
\* TRUE when the Keychain command or the decryption throws, skipped when the
\* body runs `continue` before comparing
Retrieve(k, keyMeta, broken) ==
  CASE backend = "keychain" ->
         IF keyMeta.id \in broken \/ keyMeta.id \notin DOMAIN k.vault
         THEN [thrown |-> TRUE, skipped |-> FALSE, storedKey |-> << >>]
         ELSE [thrown |-> FALSE, skipped |-> FALSE,
               storedKey |-> trim(k.vault[keyMeta.id])]
    [] backend = "dpapi" ->
         IF keyMeta.encryptedApiKey # << >>
         THEN IF keyMeta.id \in broken
              THEN [thrown |-> TRUE, skipped |-> FALSE, storedKey |-> << >>]
              ELSE [thrown |-> FALSE, skipped |-> FALSE,
                    storedKey |-> decryptWindows(keyMeta.encryptedApiKey)]
         ELSE IF keyMeta.apiKey # << >>
         THEN [thrown |-> FALSE, skipped |-> FALSE, storedKey |-> keyMeta.apiKey]
         ELSE [thrown |-> FALSE, skipped |-> TRUE, storedKey |-> << >>]
    [] OTHER ->
         IF keyMeta.apiKey = << >>
         THEN [thrown |-> FALSE, skipped |-> TRUE, storedKey |-> << >>]
         ELSE [thrown |-> FALSE, skipped |-> FALSE, storedKey |-> keyMeta.apiKey]

findKeyByValue_aborting(k, apiKeyValue, io, probes, broken) ==
  LET i  == ensureInitialized(k, io, probes)
      k0 == i.k
      ks == k0.store.keys
      hit(j) == LET r == Retrieve(k0, ks[j], broken)
                IN  ~r.thrown /\ ~r.skipped /\ trim(r.storedKey) = apiKeyValue
      index == FirstOf({ j \in 1..Len(ks) : hit(j) })
      threw == FirstOf({ j \in 1..Len(ks) : Retrieve(k0, ks[j], broken).thrown })
  IN  IF i.result # "ok" THEN Got(k0, "initFailed", << >>)
      ELSE IF threw # 0 /\ (index = 0 \/ threw < index)
      THEN Got(k0, "retrievalFailed", << >>)
      ELSE IF index = 0 THEN Got(k0, "ok", << >>)
      ELSE Got(k0, "ok", ks[index])

\* for (const keyMeta of this.store.keys) { try { ... if (storedKey.trim()
\* === apiKeyValue) return keyMeta } catch { continue } } return null
findKeyByValue(k, apiKeyValue, io, probes, broken) ==
  LET i  == ensureInitialized(k, io, probes)
      k0 == i.k
      ks == k0.store.keys
      hit(j) == LET r == Retrieve(k0, ks[j], broken)
                IN  ~r.thrown /\ ~r.skipped /\ trim(r.storedKey) = apiKeyValue
      index == FirstOf({ j \in 1..Len(ks) : hit(j) })
  IN  IF i.result # "ok" THEN Got(k0, "initFailed", << >>)
      ELSE IF index = 0 THEN Got(k0, "ok", << >>)
      ELSE Got(k0, "ok", ks[index])

\* Values findKeyByValue is asked for: two stored ones, one stored nowhere,
\* and a stored one followed by a blank
ScanValues ==
  { Rep("a", KeyLen), Rep("7", KeyLen), Rep("c", KeyLen),
    Append(Rep("a", KeyLen), " ") }

\* The records whose retrieval throws during one scan
BrokenChoices ==
  IF backend \in { "keychain", "dpapi" }
  THEN SUBSET { ScanIds[j] : j \in 1..3 }
  ELSE { {} }

FindKeyByValue ==
  \E apiKeyValue \in ScanValues, probes \in ProbeChoices(~store.loaded),
     io \in (IF store.loaded \/ file.exists THEN { OkIo } ELSE IoChoices),
     broken \in BrokenChoices :
    LET r == findKeyByValue(K, apiKeyValue, io, probes, broken)
    IN  Answer(r, "findKeyByValue", apiKeyValue, r.value)

NextScan ==
  \/ Initialize
  \/ GetKey
  \/ FindKeyByValue

SpecScan == InitScan /\ [][NextScan]_vars


\* The secret the backend holds for a record, empty when it holds none
SecretHeld(keyMeta) ==
  CASE backend = "keychain" ->
         IF keyMeta.id \in DOMAIN vault THEN trim(vault[keyMeta.id]) ELSE << >>
    [] backend = "dpapi" ->
         IF keyMeta.encryptedApiKey # << >> THEN keyMeta.encryptedApiKey[2]
         ELSE keyMeta.apiKey
    [] OTHER -> keyMeta.apiKey

\* C22: a getKey that got past initialize returns null exactly when no
\* record has the argument as id or name; when one has, it either raises or
\* returns the non-empty secret held for a record the argument names, and it
\* raises whenever no secret is held for the record it resolved.
C22_GetKeyNullOnlyWhenAbsent ==
  [][(lastOp'.op = "getKey" /\ lastOp'.result # "initFailed") =>
       LET ks      == KeysBefore
           matches == { j \in 1..Len(ks) :
                          ks[j].id = got'.arg \/ ks[j].name = got'.arg }
       IN  /\ (lastOp'.result = "null") <=> (matches = {})
           /\ lastOp'.result \in { "null", "ok", "keychainFailed",
                                   "dpapiFailed", "noSecret" }
           /\ lastOp'.result = "ok" =>
                /\ got'.value # << >>
                /\ \E j \in matches : got'.value = SecretHeld(ks[j])
           /\ (matches # {} /\ \A j \in matches : SecretHeld(ks[j]) = << >>)
                => lastOp'.result \in { "keychainFailed", "noSecret" }
           /\ lastOp'.result # "ok" => got'.value = << >>]_vars

\* getKey by the name of a record whose secret is gone raised
C22_Witness ==
  /\ lastOp.op = "getKey"
  /\ lastOp.result \in { "keychainFailed", "noSecret" }
  /\ got.arg = "prod"
  /\ \E j \in 1..Len(store.keys) :
       store.keys[j].name = "prod" /\ SecretHeld(store.keys[j]) = << >>

\* C26: findKeyByValue on a loaded or loadable store never raises; it
\* returns the first record, in store order, whose secret can be retrieved
\* and equals the value, whatever the other records' retrievals do, and null
\* when there is no such record.
C26_ScanSkipsFailures ==
  (file.exists /\ file.valid) =>
    \A apiKeyValue \in ScanValues, broken \in BrokenChoices :
      LET ks == KeysBefore
          r  == findKeyByValue(K, apiKeyValue, OkIo,
                               [id \in IdSet(ks) |-> "found"], broken)
          retrievable(j) ==
            /\ SecretHeld(ks[j]) # << >>
            /\ \/ ks[j].id \notin broken
               \/ backend = "file"
               \/ backend = "dpapi" /\ ks[j].encryptedApiKey = << >>
          equal == { j \in 1..Len(ks) :
                       retrievable(j) /\ SecretHeld(ks[j]) = apiKeyValue }
      IN  /\ r.result = "ok"
          /\ (r.value = << >>) <=> (equal = {})
          /\ equal # {} =>
               r.value = ks[CHOOSE j \in equal : \A m \in equal : j <= m]

\* The scan returned the third record: the first, holding the same secret,
\* could not be retrieved
C26_Witness ==
  /\ lastOp.op = "findKeyByValue" /\ lastOp.result = "ok"
  /\ got.arg = Rep("a", KeyLen)
  /\ got.value # << >>
  /\ got.value.id = "uuid-3"
  /\ SecretHeld(store.keys[1]) = << >>
  /\ SecretHeld(store.keys[3]) = Rep("a", KeyLen)

\* C29: a call that finds a store file that is not valid JSON fails in
\* initialize, leaves the file as it is, the store unloaded and no lock
\* behind; the store file is created, as the empty store, only by a call
\* that found none.
C29_CorruptStoreIsFatal ==
  [][/\ (file.exists /\ ~file.valid) =>
          /\ lastOp'.result = "initFailed"
          /\ file' = file
          /\ ~store'.loaded
          /\ ~lock'.exists
     /\ file' # file =>
          /\ ~file.exists
          /\ file' = [exists |-> TRUE, valid |-> TRUE, keys |-> << >>,
                      version |-> 1]
          /\ store'.loaded /\ store'.keys = << >> /\ store'.version = 1]_vars

\* initialize failed on a store file that is not valid JSON
C29_Witness ==
  /\ lastOp.op = "initialize" /\ lastOp.result = "initFailed"
  /\ file.exists /\ ~file.valid
  /\ ~store.loaded


(***************************************************************************)
(* SpecRoundTrip: one Key Manager from an empty directory, keys added with *)
(* different secrets and read back between other calls                     *)
(***************************************************************************)
\* The secret each name is added with
SecretOfName == [ n \in GoodNames |->
                  IF n = "prod" THEN Rep("a", KeyLen) ELSE Rep("7", KeyLen) ]

migrateLegacyKey_adding(k, apiKey, url, name, io, probes, secOk) ==
  addKey(k, name, apiKey, url, NoEnv, io, probes, secOk)

\* const existing = this.store.keys.find((k) => k.name === name);
\* if (existing) return existing.id; return this.addKey(name, apiKey, baseUrl)
migrateLegacyKey(k, apiKey, url, name, io, probes, secOk) ==
  LET i  == ensureInitialized(k, io, probes)
      k0 == i.k
      ks == k0.store.keys
      existing == FirstOf({ j \in 1..Len(ks) : ks[j].name = name })
  IN  IF i.result # "ok" THEN Out(k0, "initFailed")
      ELSE IF existing # 0 THEN [Out(k0, "ok") EXCEPT !.id = ks[existing].id]
      ELSE addKey(k0, name, apiKey, url, NoEnv, io, probes, secOk)

StoreKey ==
  /\ nextId < MaxKeys
  /\ \E name \in GoodNames, probes \in ProbeChoices(~store.loaded) :
       LET dry == addKey(K, name, SecretOfName[name], GoodUrl, NoEnv, OkIo,
                         probes, TRUE)
       IN  \E io \in IoOf(dry), secOk \in SecOf(dry, { "keychain", "dpapi" }) :
             LET r == addKey(K, name, SecretOfName[name], GoodUrl, NoEnv, io,
                             probes, secOk)
             IN  Answer(r, "addKey", name, r.id)

MigrateLegacyKey ==
  \E name \in { "prod" }, probes \in ProbeChoices(~store.loaded) :
    LET dry == migrateLegacyKey(K, SecretOfName[name], GoodUrl, name, OkIo,
                                probes, TRUE)
    IN  /\ dry.k.nextId <= MaxKeys
        /\ \E io \in IoOf(dry), secOk \in SecOf(dry, { "keychain", "dpapi" }) :
             LET r == migrateLegacyKey(K, SecretOfName[name], GoodUrl, name,
                                       io, probes, secOk)
             IN  Answer(r, "migrateLegacyKey", name, r.id)

\* The steps of this specification are those in which the disk did as
\* asked: the store file holds what was saved and the backup what the store
\* file held.  Failing writes and backup copies are followed in Spec and
\* SpecLookup; Keychain and DPAPI calls fail here as there.
DiskObeys ==
  /\ file' = StoreFile(store'.keys)
  /\ \/ backup' = file
     \/ ~(file.exists /\ file.valid /\ Len(file.keys) > 0)
     \/ file' = file /\ backup' = backup

NextRoundTrip ==
  \/ StoreKey /\ DiskObeys
  \/ MigrateLegacyKey /\ DiskObeys
  \/ GetKey
  \/ ActivateKey /\ DiskObeys
  \/ UpdateKeyEnv /\ DiskObeys
  \/ RemoveKey /\ DiskObeys

SpecRoundTrip == Init /\ [][NextRoundTrip]_vars


\* C25: migrateLegacyKey with the name of a record the store holds returns
\* that record's id and changes neither the records, the store file, the
\* backup nor the vault, and draws no new id; after any successful call
\* exactly one record has the name and its id is the one returned.
C25_MigrateIsIdempotent ==
  [][lastOp'.op = "migrateLegacyKey" =>
       LET before == KeysBefore
           after  == store'.keys
           name   == got'.arg
           same   == { j \in 1..Len(before) : before[j].name = name }
       IN  /\ same # {} =>
                /\ lastOp'.result = "ok"
                /\ \E j \in same : got'.value = before[j].id
                /\ after = before
                /\ file' = file
                /\ backup' = backup
                /\ vault' = vault
                /\ nextId' = nextId
           /\ lastOp'.result = "ok" =>
                /\ Cardinality({ j \in 1..Len(after) : after[j].name = name }) = 1
                /\ \E j \in 1..Len(after) :
                     after[j].name = name /\ after[j].id = got'.value]_vars

\* The call returned the id of the first of two records: had it added the
\* record, the record would be the last
C25_Witness ==
  /\ lastOp.op = "migrateLegacyKey" /\ lastOp.result = "ok"
  /\ Len(store.keys) = 2
  /\ store.keys[1].name = got.arg
  /\ store.keys[1].id = got.value

\* C27: on every backend, while the backend answers, getKey by the id of any
\* record of the store returns the secret that record's name was added
\* with, whatever calls came in between; a getKey call by id that returned
\* has returned that secret.
C27_SecretRoundTrip ==
  /\ store.loaded =>
       \A j \in 1..Len(store.keys) :
         LET r == getKey(K, store.keys[j].id, OkIo, << >>, TRUE)
         IN  r.result = "ok" /\ r.value = SecretOfName[store.keys[j].name]
  /\ (lastOp.op = "getKey" /\ lastOp.result = "ok") =>
       \A j \in 1..Len(store.keys) :
         store.keys[j].id = got.arg =>
           got.value = SecretOfName[store.keys[j].name]

\* The first record's secret was read back by id after a second record was
\* added, made active and given an override
C27_Witness ==
  /\ lastOp.op = "getKey" /\ lastOp.result = "ok"
  /\ Len(store.keys) = 2
  /\ store.keys[2].isActive /\ store.keys[2].env # << >>
  /\ got.arg = store.keys[1].id
  /\ got.value = SecretOfName[store.keys[1].name]


(***************************************************************************)
(* SpecServer: IterableMcpServer after run, answering ListTools and        *)
(* CallTool requests (requests arrive only after server.connect, the last  *)
(* step of run)                                                            *)
(***************************************************************************)
InitServer ==
  /\ penv \in PermissionEnvs
  /\ kenv = UndefinedKeyEnv
  /\ menv0 = NoInstallEnv
  /\ menv = NoInstallEnv
  /\ enforced = 0
  /\ config = [allowUserPii |-> FALSE, allowWrites |-> FALSE,
               allowSends |-> FALSE]
  /\ tools = AllTools
  /\ listed = NotRun
  /\ EmptyDisk
  /\ IdleKeyManager
  /\ IdleProcs

findTool_registered(ts, name) ==
  FirstOf({ i \in 1..Len(AllTools) : AllTools[i] = name })

\* this.tools.find((tool) => tool.name === name): its index, 0 for undefined
findTool(ts, name) == FirstOf({ i \in 1..Len(ts) : ts[i] = name })

\* The state after the server answered a request
Respond(op, result, arg, value) ==
  /\ lastOp' = [op |-> op, result |-> result, warned |-> FALSE]
  /\ got' = [arg |-> arg, value |-> value]
  /\ UNCHANGED <<store, saveLock, backend, nextId, config, tools, listed,
                 envVars, diskVars, procVars, callVars>>

\* ListToolsRequestSchema handler: ({ tools: this.tools })
ListTools ==
  /\ listed.ran
  /\ Respond("listTools", "ok", "", listed.tools)

\* CallToolRequestSchema handler: an unknown name is refused, otherwise the
\* handler runs and returns, throws an McpError, or throws something else
CallTool ==
  /\ listed.ran
  /\ \E name \in { AllTools[i] : i \in 1..Len(AllTools) } \cup { "no_such_tool" } :
       IF findTool(listed.tools, name) = 0
       THEN Respond("callTool", "MethodNotFound", name, << >>)
       ELSE \E outcome \in { "returned", "McpError", "InternalError" } :
              Respond("callTool", outcome, name, << >>)

NextServer ==
  \/ Run
  \/ ListTools
  \/ CallTool

SpecServer == InitServer /\ [][NextServer]_vars

\* C28: once run has finished, the list ListTools returns is
\* filterTools(allTools, config), and CallTool runs a handler exactly for
\* the names in that list: a registered tool the filter left out is refused
\* with MethodNotFound like an unregistered one.
C28_OnlyFilteredToolsServed ==
  listed.ran =>
    LET allowed == filterTools(AllTools, config)
        names   == { allowed[i] : i \in 1..Len(allowed) }
    IN  /\ listed.tools = allowed
        /\ lastOp.op = "listTools" => got.value = allowed
        /\ lastOp.op = "callTool" =>
             /\ (lastOp.result = "MethodNotFound") <=> (got.arg \notin names)
             /\ lastOp.result \in { "MethodNotFound", "returned", "McpError",
                                    "InternalError" }

\* A send tool was called on a server started without sends and refused
C28_Witness ==
  /\ listed.ran
  /\ ~config.allowSends /\ config.allowWrites
  /\ lastOp.op = "callTool" /\ lastOp.result = "MethodNotFound"
  /\ got.arg = "send_email"


(***************************************************************************)
(* SpecEnv: one Key Manager over a store file of two records; the per-key  *)
(* environment overrides are updated again and again, every write to disk  *)
(* succeeding                                                              *)
(***************************************************************************)
\* envOverrides arguments: one entry, the same entry with another value,
\* and another entry
EnvArgs ==
  { [ITERABLE_USER_PII |-> "true"],
    [ITERABLE_USER_PII |-> "false"],
    [ITERABLE_ENABLE_WRITES |-> "true"] }

\* updateKeyEnv; the overrides passed are kept beside the idOrName
MergeKeyEnv ==
  \E idOrName \in IdOrNames, overrides \in EnvArgs,
     probes \in ProbeChoices(~store.loaded) :
    \E io \in IoOf(updateKeyEnv(K, idOrName, overrides, OkIo, probes)) :
      Answer(updateKeyEnv(K, idOrName, overrides, io, probes), "updateKeyEnv",
             idOrName, overrides)

NextEnv == MergeKeyEnv /\ DiskObeys

SpecEnv == InitLookup /\ [][NextEnv]_vars

\* C31: a successful updateKeyEnv leaves the list as long as it was, gives
\* the record it found (the first whose id or name is the argument) an env
\* that holds every entry passed with the value passed and every other old
\* entry with its old value and nothing else, leaves that record's id, name,
\* endpoint, isActive and secret fields as they were, leaves every other
\* record as it was, and touches no vault entry.
C31_EnvMergedNothingElse ==
  [][(lastOp'.op = "updateKeyEnv" /\ lastOp'.result = "ok") =>
       LET before    == KeysBefore
           after     == store'.keys
           overrides == got'.value
           i         == findByIdOrName(before, got'.arg)
       IN  /\ i > 0
           /\ Len(after) = Len(before)
           /\ DOMAIN after[i].env = (DOMAIN before[i].env) \cup (DOMAIN overrides)
           /\ \A n \in DOMAIN overrides : after[i].env[n] = overrides[n]
           /\ \A n \in (DOMAIN before[i].env) \ (DOMAIN overrides) :
                after[i].env[n] = before[i].env[n]
           /\ [after[i] EXCEPT !.env = before[i].env] = before[i]
           /\ \A j \in 1..Len(after) : j # i => after[j] = before[j]
           /\ vault' = vault
           /\ file' = StoreFile(after)]_vars

\* An update that passed one entry has kept another entry the record held
\* and overwritten the value of the passed one; the other record has an env
\* of its own
C31_Witness ==
  /\ lastOp.op = "updateKeyEnv" /\ lastOp.result = "ok"
  /\ got.value = [ITERABLE_USER_PII |-> "false"]
  /\ \E i \in 1..Len(store.keys) :
       /\ store.keys[i].id = got.arg
       /\ store.keys[i].env = [ITERABLE_USER_PII |-> "false",
                               ITERABLE_ENABLE_WRITES |-> "true"]
       /\ \E j \in 1..Len(store.keys) :
            j # i /\ store.keys[j].env = [ITERABLE_USER_PII |-> "true"]
  /\ backup.exists /\ backup.valid
  /\ \E i \in 1..Len(backup.keys) :
       backup.keys[i].env = [ITERABLE_USER_PII |-> "true",
                             ITERABLE_ENABLE_WRITES |-> "true"]


\* C39 (as claimed): after an addKey, setActiveKey or deleteKey call that
\* failed because its saveMetadata failed, the records in memory, which
\* listKeys returns, are the records of the store file.
C39_FailedSaveLeavesMemoryAsFile ==
  (/\ lastOp.op \in { "addKey", "setActiveKey", "deleteKey" }
   /\ lastOp.result \in { "saveFailed", "lockTimeout" }) =>
     listKeys(K) = file.keys


\* C38: with no other process at work, once a call that ran loadMetadata or
\* saveMetadata has ended, whether it returned or threw, no lock file
\* exists: not after a load that read and parsed the store file, not after
\* one that found no file or a file that is not valid JSON, and not after a
\* save whose write succeeded or failed.  A lock file left by a dead process
\* is taken over and removed like the call's own.
C38_LockReleasedOnEveryPath ==
  [][(~store.loaded \/ file' # file \/ lastOp'.result = "saveFailed") =>
       ~lock'.exists]_vars

\* initialize found a dead process's lock and no store file, and its save
\* of the new empty store failed at the write
C38_Witness ==
  /\ lastOp.op = "initialize" /\ lastOp.result = "initFailed"
  /\ store.loaded /\ store.keys = << >>
  /\ ~file.exists
  /\ ~lock.exists
  /\ saveLock = Null


(***************************************************************************)
(* SpecShared: several processes over one store directory, each with the   *)
(* Key Manager it loaded at the start, each calling addKey or setActiveKey *)
(* once.  A call runs one file-system call at a time and the process may   *)
(* die between any two of them; a call starts when none is under way.      *)
(***************************************************************************)
\* A second, inactive record the store file may hold at the start
SecondKey ==
  [KeyMeta(IdPool[6], "other", GoodUrl.raw, FALSE, NoEnv)
     EXCEPT !.apiKey = Rep("7", KeyLen)]

InitShared ==
  /\ lock \in { NoLock, LockOf(DeadPid, FALSE) }
  /\ initLock = lock
  /\ initFile \in { << >>, << ExistingKey >>, << ExistingKey, SecondKey >> }
  /\ file = StoreFile(initFile)
  /\ backup = NoStoreFile
  /\ vault = << >>
  /\ alive = Procs
  /\ pc = [p \in Procs |-> "idle"]
  /\ attempt = [p \in Procs |-> 0]
  /\ seen = [p \in Procs |-> NoLock]
  /\ buf = [p \in Procs |-> NoStoreFile]
  /\ pstore = [p \in Procs |-> initFile]
  /\ IdleKeyManager
  /\ IdleFilter

\* No other process is inside a call
Quiet(p) ==
  \A q \in Procs \ {p} : pc[q] \in { "idle", "done", "lockFailed", "crashed" }

\* setActiveKey up to its save: the flags are set in memory, then
\* saveMetadata is entered
StartSetActiveKey(p) ==
  /\ pc[p] = "idle"
  /\ \E index \in 1..Len(pstore[p]) :
       pstore' = [pstore EXCEPT ![p] = activateOnly(@, index)]
  /\ attempt' = [attempt EXCEPT ![p] = 0]
  /\ Goto(p, "create")
  /\ UNCHANGED <<seen, buf, initFile, initLock, diskVars, kmVars, filterVars>>

\* The process dies inside a call, and the call's locals with it; another
\* process of the store lives on
Die(p) ==
  /\ pc[p] \notin { "idle", "done", "lockFailed", "crashed" }
  /\ alive \cap Procs # {p}
  /\ Goto(p, "crashed")
  /\ alive' = alive \ {p}
  /\ attempt' = [attempt EXCEPT ![p] = 0]
  /\ seen' = [seen EXCEPT ![p] = NoLock]
  /\ buf' = [buf EXCEPT ![p] = NoStoreFile]
  /\ UNCHANGED <<pstore, initFile, initLock, lock, file, backup, vault, kmVars,
                 filterVars>>

NextShared ==
  \E p \in Procs :
    \/ Quiet(p) /\ StartAddKey(p)
    \/ Quiet(p) /\ StartSetActiveKey(p)
    \/ Quiet(p) /\ CreateLock(p)
    \/ Quiet(p) /\ WriteLock(p)
    \/ Quiet(p) /\ ReadLock(p)
    \/ Quiet(p) /\ CheckLock(p)
    \/ Quiet(p) /\ UnlinkStale(p)
    \/ Quiet(p) /\ Retry(p)
    \/ Quiet(p) /\ ReadStore(p)
    \/ Quiet(p) /\ BackupRead(p)
    \/ Quiet(p) /\ BackupWrite(p)
    \/ Quiet(p) /\ TruncateStore(p)
    \/ Quiet(p) /\ WriteStore(p)
    \/ Quiet(p) /\ UnlockRead(p)
    \/ Quiet(p) /\ UnlockUnlink(p)
    \/ Die(p)

SpecShared == InitShared /\ [][NextShared]_vars

CallAgain(p) ==
  /\ pc[p] \in { "done", "lockFailed" }
  /\ Goto(p, "create")
  /\ attempt' = [attempt EXCEPT ![p] = 0]
  /\ seen' = [seen EXCEPT ![p] = NoLock]
  /\ buf' = [buf EXCEPT ![p] = NoStoreFile]
  /\ UNCHANGED <<pstore, initFile, initLock, diskVars, kmVars, filterVars>>

NextRecover ==
  \/ NextShared
  \/ \E p \in Procs : Quiet(p) /\ CallAgain(p)

SpecRecover == InitShared /\ [][NextRecover]_vars /\ WF_vars(NextRecover)

\* C37 (as claimed): once a process has died leaving behind the lock file
\* it created, whether or not it had written its pid and timestamp into it,
\* a live process that keeps calling acquireLock comes to hold the lock.
C37_LeftoverLockReclaimed ==
  \A p \in Procs :
    (pc[p] = "crashed" /\ lock.exists /\ lock.by = p)
      ~> (\E q \in Procs : HoldsLock(q))


(***************************************************************************)
(* SpecOverlap: addKey calls made on one Key Manager without awaiting the  *)
(* earlier ones (plain event loop, one process).                           *)
(*                                                                         *)
(* A step is the completion of the file-system, Keychain or DPAPI call a   *)
(* call is suspended at, followed by everything the call then runs         *)
(* without suspending, up to the next such call.  A call that finds        *)
(* keys.lock taken by another call of the same process sees a live pid and *)
(* a fresh timestamp and tries again; here the holder always finishes      *)
(* within the 20 attempts.  All arguments are valid.                       *)
(***************************************************************************)
\* The names the calls pass: the second call's is the first call's or one
\* of its own, the others have names of their own
CallNames(c) == IF c = 2 THEN { NamePool[1], NamePool[2] } ELSE { NamePool[c] }

\* What is left of a call that has ended: how it ended and its name
Ended(c, how) == [NoCall EXCEPT !.at = how, !.name = call[c].name]

\* The promise the async block of call c's saveMetadata returns
SavePromise(c) == << "promise-1", "promise-2", "promise-3", "promise-4" >>[c]

\* The fields of the Key Manager that code between two awaits reads and
\* writes
Memory ==
  [store |-> store, saveLock |-> saveLock, waiting |-> waiting,
   call |-> call, nextId |-> nextId]

\* saveMetadata from its entry to its first suspension: line 375 when a save
\* is in progress, else the exclusive create of acquireLock called from the
\* async block (379-380, 220)
saveMetadata_enter(m, c, then) ==
  IF m.saveLock # Null
  THEN [m EXCEPT !.call[c].at = "awaitSaveLock", !.call[c].then = then,
                 !.call[c].awaits = m.saveLock, !.waiting = Append(@, c)]
  ELSE [m EXCEPT !.saveLock = SavePromise(c), !.call[c].at = "saveLock",
                 !.call[c].then = then]

\* this.store.keys.push(metadata); await this.saveMetadata()
addKey_push(m, c) ==
  saveMetadata_enter([m EXCEPT !.store.keys = Append(@, m.call[c].metadata)],
                     c, "return")

\* addKey from the duplicate-name check to its next suspension (598-656)
addKey_checks(m, c) ==
  IF nameExists(m.store.keys, m.call[c].name)
  THEN [m EXCEPT !.call[c] = [NoCall EXCEPT !.at = "threw",
                                            !.name = m.call[c].name]]
  ELSE LET id   == generateId(m.nextId)
           meta == KeyMeta(id, m.call[c].name, GoodUrl.raw,
                           isFirstKey(m.store.keys), NoEnv)
           m1   == [m EXCEPT !.nextId = @ + 1]
       IN  CASE backend = "keychain" ->
                  [m1 EXCEPT !.call[c].metadata = meta,
                             !.call[c].at = "execSecurity"]
             [] backend = "dpapi" ->
                  [m1 EXCEPT !.call[c].metadata = meta,
                             !.call[c].at = "encryptWindows"]
             [] OTHER ->
                  addKey_push(
                    [m1 EXCEPT !.call[c].metadata =
                                  [meta EXCEPT !.apiKey = Rep("a", KeyLen)]], c)

\* The async block of call c's save has ended: this.saveLock = null (406),
\* then every call suspended on that promise at line 375 goes on, oldest
\* first, each setting this.saveLock to its own async block and entering
\* acquireLock (379-380)
saveMetadata_settle(m, c) ==
  LET onIt(w)  == m.call[w].awaits = SavePromise(c)
      others(w) == ~onIt(w)
      woken    == SelectSeq(m.waiting, onIt)
      isWoken(w) == \E i \in 1..Len(woken) : woken[i] = w
  IN  [m EXCEPT
         !.saveLock = IF woken = << >> THEN Null
                      ELSE SavePromise(woken[Len(woken)]),
         !.waiting  = SelectSeq(m.waiting, others),
         !.call     = [w \in Calls |->
                         IF isWoken(w)
                         THEN [m.call[w] EXCEPT !.at = "saveLock",
                                                !.awaits = Null]
                         ELSE m.call[w]]]

\* The state after a step that left the Key Manager's fields as m
Keep(m) ==
  /\ store' = m.store
  /\ saveLock' = m.saveLock
  /\ waiting' = m.waiting
  /\ call' = m.call
  /\ nextId' = m.nextId
  /\ UNCHANGED <<backend, lastOp, got, alive, filterVars, procVars>>

InitOverlap ==
  /\ backend \in { "keychain", "dpapi", "file" }
  /\ \/ store = NullStore /\ file = NoStoreFile
     \/ store = NullStore /\ file = StoreFile(<< >>)
     \/ store = KeyStore(<< >>) /\ file = StoreFile(<< >>)
  /\ lock = NoLock
  /\ backup = NoStoreFile
  /\ vault = << >>
  /\ alive = Procs
  /\ saveLock = Null
  /\ nextId = 0
  /\ lastOp = [op |-> "new", result |-> "ok", warned |-> FALSE]
  /\ got = NoAnswer
  /\ IdleCalls
  /\ IdleFilter
  /\ IdleProcs

\* addKey is called: on a loaded store it runs to its first suspension; on
\* an unloaded one it enters initialize, mkdir, loadMetadata and the
\* exclusive create of acquireLock (581-583, 307-311, 340, 220)
Invoke(c) ==
  /\ call[c].at = "idle"
  /\ \E name \in CallNames(c) :
       LET m == [Memory EXCEPT !.call[c].name = name]
       IN  IF store.loaded
           THEN Keep(addKey_checks(m, c))
           ELSE Keep([m EXCEPT !.call[c].at = "loadLock"])
  /\ UNCHANGED <<lock, file, backup, vault>>

\* loadMetadata: acquireLock's exclusive create succeeds
LoadLock(c) ==
  /\ call[c].at = "loadLock"
  /\ ~lock.exists
  /\ lock' = LockOf(1, FALSE)
  /\ Keep([Memory EXCEPT !.call[c].at = "loadRead"])
  /\ UNCHANGED <<file, backup, vault>>

\* loadMetadata: fs.readFile(metadataFile) and this.store = JSON.parse(data)
LoadRead(c) ==
  /\ call[c].at = "loadRead"
  /\ IF file.exists
     THEN Keep([Memory EXCEPT !.store = Parse(file),
                              !.call[c].at = "loadUnlock",
                              !.call[c].enoent = FALSE])
     ELSE Keep([Memory EXCEPT !.call[c].at = "loadUnlock",
                              !.call[c].enoent = TRUE])
  /\ UNCHANGED <<lock, file, backup, vault>>

\* loadMetadata's finally: unlock.  Then initialize goes on: after ENOENT it
\* sets this.store to a new empty store and saves it (313-319); otherwise
\* validateAndCleanup and back in addKey (327, 585-656)
LoadUnlock(c) ==
  /\ call[c].at = "loadUnlock"
  /\ lock' = NoLock
  /\ IF call[c].enoent
     THEN Keep(saveMetadata_enter([Memory EXCEPT !.store = KeyStore(<< >>)],
                                  c, "cleanup"))
     ELSE Keep(addKey_checks(Memory, c))
  /\ UNCHANGED <<file, backup, vault>>

\* The Keychain command or the DPAPI call returns; addKey pushes the record
\* and enters saveMetadata (624-657)
VaultCall(c) ==
  /\ call[c].at \in { "execSecurity", "encryptWindows" }
  /\ IF call[c].at = "execSecurity"
     THEN /\ vault' = VaultPut(vault, call[c].metadata.id, Rep("a", KeyLen))
          /\ Keep(addKey_push(Memory, c))
     ELSE /\ vault' = vault
          /\ Keep(addKey_push(
                    [Memory EXCEPT !.call[c].metadata.encryptedApiKey =
                                      encryptWindows(Rep("a", KeyLen))], c))
  /\ UNCHANGED <<lock, file, backup>>

\* saveMetadata's async block: acquireLock's exclusive create succeeds
SaveLock(c) ==
  /\ call[c].at = "saveLock"
  /\ ~lock.exists
  /\ lock' = LockOf(1, FALSE)
  /\ Keep([Memory EXCEPT !.call[c].at = "saveRead"])
  /\ UNCHANGED <<file, backup, vault>>

\* saveMetadata: the existing file is read and, when it holds records,
\* copied to the backup (384-389); then JSON.stringify(this.store) is
\* handed to fs.writeFile (394-396)
SaveRead(c) ==
  /\ call[c].at = "saveRead"
  /\ backup' = IF file.exists /\ file.valid /\ Len(file.keys) > 0
               THEN file ELSE backup
  /\ Keep([Memory EXCEPT !.call[c].at = "saveWrite",
                         !.call[c].data = Stringify(store)])
  /\ UNCHANGED <<lock, file, vault>>

\* saveMetadata: fs.writeFile(metadataFile, ...) completes
SaveWrite(c) ==
  /\ call[c].at = "saveWrite"
  /\ file' = call[c].data
  /\ Keep([Memory EXCEPT !.call[c].at = "saveUnlock"])
  /\ UNCHANGED <<lock, backup, vault>>

\* saveMetadata's finally: unlock and this.saveLock = null; the calls
\* waiting for this save go on; then the caller of this save goes on:
\* initialize with validateAndCleanup and addKey's checks, or addKey
\* returns the id
SaveUnlock(c) ==
  /\ call[c].at = "saveUnlock"
  /\ lock' = NoLock
  /\ LET m == saveMetadata_settle(Memory, c)
     IN  IF call[c].then = "cleanup"
         THEN Keep(addKey_checks(m, c))
         ELSE Keep([m EXCEPT !.call[c] = Ended(c, "returned")])
  /\ UNCHANGED <<file, backup, vault>>

NextOverlap ==
  \E c \in Calls :
    \/ Invoke(c)
    \/ LoadLock(c)
    \/ LoadRead(c)
    \/ LoadUnlock(c)
    \/ VaultCall(c)
    \/ SaveLock(c)
    \/ SaveRead(c)
    \/ SaveWrite(c)
    \/ SaveUnlock(c)

SpecOverlap == InitOverlap /\ [][NextOverlap]_vars

\* The async block of call c's save has entered acquireLock and has not
\* ended
InFlight(c) ==
  call[c].at \in { "saveLock", "saveRead", "saveWrite", "saveUnlock" }

\* C35 (as claimed): at no time have the async blocks of two saveMetadata
\* calls of one Key Manager both begun and not ended, however many calls
\* overlap.
C35_OneSaveInFlight ==
  Cardinality({ c \in Calls : InFlight(c) }) <= 1

\* C33 (as claimed): with addKey calls overlapping on an empty store, at no
\* time do the records in memory, or the records of the store file, include
\* two with isActive = true.
C33_OneActiveUnderOverlap ==
  /\ ActiveCount(store.keys) <= 1
  /\ ActiveCount(file.keys) <= 1

\* C34 (as claimed): with addKey calls overlapping, at no time do two
\* records in memory, or two records of the store file, have the same name.
C34_NamesUniqueUnderOverlap ==
  /\ Cardinality(NameSet(store.keys)) = Len(store.keys)
  /\ Cardinality(NameSet(file.keys)) = Len(file.keys)

\* C32 (as claimed): when two addKey calls with distinct names were made on
\* one Key Manager, loaded or not, without awaiting the first, and both
\* have ended, both have returned an id and both records are in memory and
\* in the store file.
C32_BothOverlappingAddsKept ==
  \A c \in Calls : \A d \in Calls \ {c} :
    (/\ call[c].at \in { "returned", "threw" }
     /\ call[d].at \in { "returned", "threw" }
     /\ call[c].name # call[d].name
     /\ \A e \in Calls \ {c, d} : call[e].at = "idle") =>
       /\ call[c].at = "returned" /\ call[d].at = "returned"
       /\ { call[c].name, call[d].name } \subseteq NameSet(store.keys)
       /\ { call[c].name, call[d].name } \subseteq NameSet(file.keys)

====
